---------------------------- MODULE Spec2Model ----------------------------
(***************************************************************************)
(* Model of the voice grievance bot (manojmalipatil/voicee-bot-server).    *)
(*                                                                         *)
(* Part 1: Python string helpers, computed as str.strip / lower / split /  *)
(*         find / endswith / startswith / `in` compute them.               *)
(* Part 2: agent.py, GrievanceBotLogic (the dialogue state machine).       *)
(* Part 3: agent.py, AudioFilePlayer and entrypoint: the asyncio tasks of  *)
(*         one session (transcript loop, play_greeting tasks, stream       *)
(*         tasks, the background save), one action per run of a coroutine  *)
(*         from one suspension point (await) to the next.                  *)
(***************************************************************************)
EXTENDS Integers, Sequences, FiniteSets, TLC

(***************************************************************************)
(* Part 1.  Python str operations on TLA+ strings.                         *)
(***************************************************************************)

\* s[i] of a Python str, 1-based here
CharAt(s, i) == SubSeq(s, i, i)

\* str.isspace() for one character
IsSpace(c) == c \in {" ", "\t", "\n", "\r"}

\* str.lower() for one character
LowerChar(c) ==
  CASE c = "A" -> "a" [] c = "B" -> "b" [] c = "C" -> "c" [] c = "D" -> "d"
    [] c = "E" -> "e" [] c = "F" -> "f" [] c = "G" -> "g" [] c = "H" -> "h"
    [] c = "I" -> "i" [] c = "J" -> "j" [] c = "K" -> "k" [] c = "L" -> "l"
    [] c = "M" -> "m" [] c = "N" -> "n" [] c = "O" -> "o" [] c = "P" -> "p"
    [] c = "Q" -> "q" [] c = "R" -> "r" [] c = "S" -> "s" [] c = "T" -> "t"
    [] c = "U" -> "u" [] c = "V" -> "v" [] c = "W" -> "w" [] c = "X" -> "x"
    [] c = "Y" -> "y" [] c = "Z" -> "z" [] OTHER -> c

RECURSIVE LowerFrom(_, _)
LowerFrom(s, i) ==
  IF i > Len(s) THEN "" ELSE LowerChar(CharAt(s, i)) \o LowerFrom(s, i + 1)

\* str.lower()
Lower(s) == LowerFrom(s, 1)

RECURSIVE FirstNonSpace(_, _)
FirstNonSpace(s, i) ==
  IF i > Len(s) THEN i
  ELSE IF IsSpace(CharAt(s, i)) THEN FirstNonSpace(s, i + 1) ELSE i

RECURSIVE LastNonSpace(_, _)
LastNonSpace(s, i) ==
  IF i < 1 THEN i
  ELSE IF IsSpace(CharAt(s, i)) THEN LastNonSpace(s, i - 1) ELSE i

\* str.strip()
Strip(s) ==
  LET a == FirstNonSpace(s, 1)
      b == LastNonSpace(s, Len(s))
  IN  IF a > b THEN "" ELSE SubSeq(s, a, b)

RECURSIVE CountWordsFrom(_, _, _)
CountWordsFrom(s, i, inWord) ==
  IF i > Len(s) THEN 0
  ELSE IF IsSpace(CharAt(s, i)) THEN CountWordsFrom(s, i + 1, FALSE)
  ELSE (IF inWord THEN 0 ELSE 1) + CountWordsFrom(s, i + 1, TRUE)

\* len(s.split())
WordCount(s) == CountWordsFrom(s, 1, FALSE)

RECURSIVE SplitFrom(_, _, _)
SplitFrom(s, i, word) ==
  IF i > Len(s) THEN (IF word = "" THEN <<>> ELSE <<word>>)
  ELSE IF IsSpace(CharAt(s, i))
    THEN (IF word = "" THEN <<>> ELSE <<word>>) \o SplitFrom(s, i + 1, "")
  ELSE SplitFrom(s, i + 1, word \o CharAt(s, i))

\* s.split(): the words of s, in order
Split(s) == SplitFrom(s, 1, "")

\* s.startswith(p)
StartsWith(s, p) == Len(p) <= Len(s) /\ SubSeq(s, 1, Len(p)) = p

\* s.endswith(p)
EndsWith(s, p) ==
  Len(p) <= Len(s) /\ SubSeq(s, Len(s) - Len(p) + 1, Len(s)) = p

\* whether p occurs in s at (1-based) position i
OccursAt(s, p, i) ==
  i >= 1 /\ i + Len(p) - 1 <= Len(s) /\ SubSeq(s, i, i + Len(p) - 1) = p

\* p in s
Contains(s, p) == \E i \in 1..(Len(s) + 1) : OccursAt(s, p, i)

\* s.find(p): the first occurrence, 0-based as in Python; -1 when absent
Find(s, p) ==
  IF Contains(s, p)
  THEN (CHOOSE i \in 1..(Len(s) + 1) :
          OccursAt(s, p, i) /\ \A j \in 1..(i - 1) : ~OccursAt(s, p, j)) - 1
  ELSE -1

\* s[k:] for a 0-based k >= 0
SliceFrom(s, k) == IF k >= Len(s) THEN "" ELSE SubSeq(s, k + 1, Len(s))

(***************************************************************************)
(* Part 2.  agent.py: GrievanceBotLogic.                                   *)
(***************************************************************************)

\* Python None, for an action token and for a timestamp
None == "none"
NoTime == 0

\* save_data = None
NoSaveData == [present |-> FALSE, transcript |-> "", timestamp |-> NoTime]

\* GrievanceBotLogic.__init__
NewBot ==
  [state |-> "greeting",
   grievance_text |-> "",
   should_disconnect |-> FALSE,
   grievance_timestamp |-> NoTime,
   has_played_probe |-> FALSE,
   save_data |-> NoSaveData]

ack_sounds == <<"ack_1", "ack_2", "ack_3">>

interrogatives == <<"what", "how", "why", "who", "where">>

exit_triggers == <<"no", "nothing", "nope", "nah">>

strong_exit_phrases ==
  <<"that's all", "that is all", "that's it", "that is it",
    "nothing else", "nothing more", "i'm done", "i am done",
    "have a good day", "thank you bye", "thanks bye", "thank you",
    "Thank you", "That's all">>

solo_gratitude == {"thank you", "thanks", "thank you.", "thanks."}

\* IsQuestion without the startswith test
IsQuestionMarkOnly(text_clean, text_lower) == EndsWith(text_clean, "?")

\* text_clean.endswith("?") or text_lower.startswith(("what", ...))
IsQuestion(text_clean, text_lower) ==
  \/ EndsWith(text_clean, "?")
  \/ \E k \in 1..Len(interrogatives) : StartsWith(text_lower, interrogatives[k])

\* any(t in text_lower for t in exit_triggers) and word_count < 4
IsPureRefusal(text_lower, word_count) ==
  /\ \E k \in 1..Len(exit_triggers) : Contains(text_lower, exit_triggers[k])
  /\ word_count < 4

\* one iteration of `for phrase in strong_exit_phrases`: does it return?
StrongPhraseFires(text_lower, phrase) ==
  /\ Contains(text_lower, phrase)
  /\ \/ EndsWith(text_lower, phrase)
     \/ EndsWith(text_lower, phrase \o ".")
     \/ LET idx == Find(text_lower, phrase)
            remainder == Strip(SliceFrom(text_lower, idx + Len(phrase)))
        IN  WordCount(remainder) <= 2

StrongExit(text_lower) ==
  \E k \in 1..Len(strong_exit_phrases) :
     StrongPhraseFires(text_lower, strong_exit_phrases[k])

\* FarewellExit without the "bye" test
\* voice.py: strong_exit_phrases
voice_strong_exit_phrases ==
  <<"that's all", "that is all", "that's it", "that is it",
    "nothing else", "nothing more", "i'm done", "i am done",
    "have a good day", "thank you bye", "thanks bye">>

\* voice.py: the loop over strong_exit_phrases sets should_exit_listening
VoiceStrongExit(text_lower) ==
  \E k \in 1..Len(voice_strong_exit_phrases) :
     StrongPhraseFires(text_lower, voice_strong_exit_phrases[k])

FarewellExitGoodbyeOnly(text_lower) == EndsWith(text_lower, "goodbye")

\* text_lower.endswith("bye") or text_lower.endswith("goodbye")
FarewellExit(text_lower) ==
  EndsWith(text_lower, "bye") \/ EndsWith(text_lower, "goodbye")

GratitudeExit(text_lower) == text_lower \in solo_gratitude

\* _prepare_exit without the state assignment
PrepareExitKeepsState(b, now) ==
  [bot |-> [b EXCEPT
              !.save_data =
                 [present |-> TRUE,
                  transcript |-> b.grievance_text,
                  timestamp |-> IF b.grievance_timestamp # NoTime
                                THEN b.grievance_timestamp ELSE now],
              !.should_disconnect = TRUE],
   ret |-> "closing"]

\* _prepare_exit without the save_data assignment
PrepareExitNoSnapshot(b, now) ==
  [bot |-> [b EXCEPT !.state = "closing", !.should_disconnect = TRUE],
   ret |-> "closing"]

\* GrievanceBotLogic._prepare_exit; now is time.time()
PrepareExit(b, now) ==
  [bot |-> [b EXCEPT
              !.save_data =
                 [present |-> TRUE,
                  transcript |-> b.grievance_text,
                  timestamp |-> IF b.grievance_timestamp # NoTime
                                THEN b.grievance_timestamp ELSE now],
              !.state = "closing",
              !.should_disconnect = TRUE],
   ret |-> "closing"]

\* what process_input computes from its argument before it looks at the
\* bot: text_clean, word_count and the outcome of each test on the text
TextFacts(text) ==
  LET text_clean == Strip(text)
      text_lower == Lower(text_clean)
      word_count == WordCount(text_lower)
  IN  [text_clean |-> text_clean,
       word_count |-> word_count,
       question |-> IsQuestion(text_clean, text_lower),
       refusal |-> IsPureRefusal(text_lower, word_count),
       strong |-> StrongExit(text_lower),
       farewell |-> FarewellExit(text_lower),
       gratitude |-> GratitudeExit(text_lower)]

\* what the STT provider may transcribe in a session
Utterances ==
  {"", "no", "hello",
   "my manager yelled at me in front of everyone yesterday",
   "that's all"}

\* what a caller may pass to process_input: the scenario of the
\* specification, refusals, questions, exit phrases at and away from the
\* end, farewells, gratitude and noise
DialogueUtterances ==
  {"", "hello", "ok", "no", " no way ", "no?", "i know",
   "no my boss lied",
   "my manager yelled at me in front of everyone yesterday",
   "is that all you need?", "who said bye",
   "whatever", "however that's all",
   "i have five words here", "one two three four five six",
   "that's all", "that's all for now",
   "that's all i have to say that's all ok",
   "That's all I have to say", "That's all the money I have",
   "bye", "ask abbye",
   "thanks", "thank you for listening"}

\* TextFacts of the utterances, computed once
SessionFacts == [u \in Utterances \cup DialogueUtterances |-> TextFacts(u)]

Facts(text) ==
  IF text \in DOMAIN SessionFacts THEN SessionFacts[text] ELSE TextFacts(text)

\* whether process_input(text) reads time.time(): at the first utterance of
\* the grievance and in _prepare_exit's fallback
ReadsClock(b, text) ==
  /\ ~b.should_disconnect
  /\ ~Facts(text).question
  /\ \/ b.state = "greeting" /\ ~Facts(text).refusal
     \/ b.state = "listening" /\ b.grievance_timestamp = NoTime

\* process_input with one slip m:
\*   "closing_listens"     no should_disconnect guard, and the listening
\*                         branch taken in every state but greeting
\*   "greeting_drops_text" the greeting branch does not append the text
\*   "noise_dropped"       the noise filter runs before the text is appended
\*   "probe_repeats"       the listening probe does not test has_played_probe
\*   "ack_before_probe"    the backchannel test runs before the probe test
\*   "question_dropped"    the guard does not append a question
\*   "greeting_no_stamp"   the greeting branch does not record the timestamp
ProcessInputSlip(b, text, now, rnd, ack, m) ==
  LET f == Facts(text)
      text_clean == f.text_clean
      word_count == f.word_count
      exits == f.strong \/ f.farewell \/ f.gratitude
  IN
  IF b.should_disconnect /\ m # "closing_listens"
    THEN [bot |-> b, ret |-> None]
  ELSE IF f.question THEN
    [bot |-> IF b.state = "listening" /\ m # "question_dropped"
             THEN [b EXCEPT !.grievance_text = @ \o " " \o text_clean]
             ELSE b,
     ret |-> None]
  ELSE IF b.state = "greeting" THEN
    IF f.refusal THEN
      [bot |-> [b EXCEPT !.state = "closing", !.should_disconnect = TRUE],
       ret |-> "early_exit"]
    ELSE
      LET b1 == [b EXCEPT !.state = "listening",
                          !.grievance_text =
                             IF m = "greeting_drops_text"
                             THEN @ ELSE @ \o text_clean,
                          !.grievance_timestamp =
                             IF m = "greeting_no_stamp" THEN @ ELSE now]
      IN  IF word_count > 7
          THEN [bot |-> [b1 EXCEPT !.has_played_probe = TRUE],
                ret |-> "probe_details"]
          ELSE [bot |-> b1, ret |-> None]
  ELSE IF b.state = "listening" \/ m = "closing_listens" THEN
    LET b1 == IF m = "noise_dropped" /\ word_count < 2 /\ ~exits
              THEN b
              ELSE [b EXCEPT !.grievance_text = @ \o " " \o text_clean]
    IN  IF exits THEN PrepareExit(b1, now)
        ELSE IF word_count < 2 THEN [bot |-> b1, ret |-> None]
        ELSE IF m = "ack_before_probe" /\ word_count > 7 /\ rnd THEN
          [bot |-> b1, ret |-> ack_sounds[ack]]
        ELSE IF (~b1.has_played_probe \/ m = "probe_repeats")
                  /\ word_count > 5 THEN
          [bot |-> [b1 EXCEPT !.has_played_probe = TRUE],
           ret |-> "probe_details"]
        ELSE IF word_count > 7 /\ rnd THEN [bot |-> b1, ret |-> ack_sounds[ack]]
        ELSE [bot |-> b1, ret |-> None]
  ELSE [bot |-> b, ret |-> None]

\* process_input that leaves the timestamp to _prepare_exit's fallback
ProcessInputGreetingNoStamp(b, text, now, rnd, ack) ==
  ProcessInputSlip(b, text, now, rnd, ack, "greeting_no_stamp")

\* process_input that goes on listening after the session closed
ProcessInputClosingListens(b, text, now, rnd, ack) ==
  ProcessInputSlip(b, text, now, rnd, ack, "closing_listens")

\* process_input that leaves the reply to the greeting out of the text
ProcessInputGreetingDropsText(b, text, now, rnd, ack) ==
  ProcessInputSlip(b, text, now, rnd, ack, "greeting_drops_text")

\* process_input that drops noise instead of appending it
ProcessInputNoiseDropped(b, text, now, rnd, ack) ==
  ProcessInputSlip(b, text, now, rnd, ack, "noise_dropped")

\* process_input that plays the probe again
ProcessInputProbeRepeats(b, text, now, rnd, ack) ==
  ProcessInputSlip(b, text, now, rnd, ack, "probe_repeats")

\* process_input that may acknowledge the utterance that is due the probe
ProcessInputAckBeforeProbe(b, text, now, rnd, ack) ==
  ProcessInputSlip(b, text, now, rnd, ack, "ack_before_probe")

\* process_input that leaves questions out of the text
ProcessInputQuestionDropped(b, text, now, rnd, ack) ==
  ProcessInputSlip(b, text, now, rnd, ack, "question_dropped")

\* GrievanceBotLogic.process_input(text).  now is time.time(); rnd is the
\* outcome of random.random() < 0.7 and ack the index random.choice picks.
ProcessInput(b, text, now, rnd, ack) ==
  LET f == Facts(text)
      text_clean == f.text_clean
      word_count == f.word_count
  IN
  IF b.should_disconnect THEN [bot |-> b, ret |-> None]
  ELSE IF f.question THEN
    [bot |-> IF b.state = "listening"
             THEN [b EXCEPT !.grievance_text = @ \o " " \o text_clean]
             ELSE b,
     ret |-> None]
  ELSE IF b.state = "greeting" THEN
    IF f.refusal THEN
      [bot |-> [b EXCEPT !.state = "closing", !.should_disconnect = TRUE],
       ret |-> "early_exit"]
    ELSE
      LET b1 == [b EXCEPT !.state = "listening",
                          !.grievance_text = @ \o text_clean,
                          !.grievance_timestamp = now]
      IN  IF word_count > 7
          THEN [bot |-> [b1 EXCEPT !.has_played_probe = TRUE],
                ret |-> "probe_details"]
          ELSE [bot |-> b1, ret |-> None]
  ELSE IF b.state = "listening" THEN
    LET b1 == [b EXCEPT !.grievance_text = @ \o " " \o text_clean]
    IN  IF f.strong THEN PrepareExit(b1, now)
        ELSE IF f.farewell THEN PrepareExit(b1, now)
        ELSE IF f.gratitude THEN PrepareExit(b1, now)
        ELSE IF word_count < 2 THEN [bot |-> b1, ret |-> None]
        ELSE IF ~b1.has_played_probe /\ word_count > 5 THEN
          [bot |-> [b1 EXCEPT !.has_played_probe = TRUE],
           ret |-> "probe_details"]
        ELSE IF word_count > 7 /\ rnd THEN [bot |-> b1, ret |-> ack_sounds[ack]]
        ELSE [bot |-> b1, ret |-> None]
  ELSE [bot |-> b, ret |-> None]

(***************************************************************************)
(* Part 3.  agent.py: AudioFilePlayer and entrypoint.                      *)
(***************************************************************************)

\* ---- bounds of the model ----
\* track_subscribed events of kind audio (one play_greeting task each)
MaxTracks == 2
\* frames a decodable asset yields
NumFrames == 2
\* STT events the transcript loop receives
MaxEvents == 2
\* largest value time.time() returns
MaxClock == 2

\* AUDIO_FILES
AUDIO_FILES ==
  [greeting |-> "audio/greeting_new.mp3",
   closing |-> "audio/closing_new.mp3",
   early_exit |-> "audio/early_closing.mp3",
   probe_details |-> "audio/probe_details_short.mp3",
   ack_1 |-> "audio/hmm.mp3",
   ack_2 |-> "audio/i_see.mp3",
   ack_3 |-> "audio/ohh_isit.mp3"]

AudioKeys == DOMAIN AUDIO_FILES

\* preload: `if "ack" in key or "greeting" in key`
Preloaded(key) == Contains(key, "ack") \/ Contains(key, "greeting")

\* the assets that fail to open or decode in this run (the environment)
BadFileChoices == {{}, {AUDIO_FILES["closing"]}}

\* AudioFilePlayer.preload: self._cache after it ran, a failing asset skipped
PreloadCache(bad) ==
  {AUDIO_FILES[k] : k \in {q \in AudioKeys : Preloaded(q)}} \ bad

\* the texts of interim events: `len(text) > 5` is false and true
InterimTexts == {"hello", "that's all"}

\* the coroutines that call player.play: the transcript loop and the
\* play_greeting task of each subscribed track
Loop == 0
Greetings == 1..MaxTracks
Callers == {Loop} \cup Greetings

\* every play() call creates at most one stream task: one per greeting and
\* at most one per event
TaskIds == 1..(MaxTracks + MaxEvents)

\* _decode_file: the frame size in bytes (`len(buffer) >= 960`)
FrameBytes == 960

\* resampled frames one file decodes to, at most
MaxChunks == 3

\* byte lengths resampler.resample(frame) may deliver
ChunkSizes == {400, 960, 1000, 2000}

\* before _decode_file is called
NoDecode ==
  [pc |-> "idle", buffer |-> 0, total |-> 0, chunks |-> 0, frames |-> <<>>]

\* a dict: the keys it has and their values
Dict(has, val) == [has |-> has, val |-> val]

\* dict.get(k, default)
Get(d, k, default) == IF k \in d.has THEN d.val[k] ELSE default

\* the keys of an analysis
AnalysisKeys ==
  {"category", "priority", "sentiment", "summary", "tags", "location"}

NoAnalysis ==
  Dict({}, [category |-> "", priority |-> "", sentiment |-> "",
            summary |-> "", tags |-> <<>>, location |-> ""])

\* GrievanceProcessor.__init__ with an empty database; calls keeps what
\* each process_and_store call was given and returned
NewProcessor ==
  [pc |-> "idle", db |-> <<>>, uuids |-> 0, transcript |-> "",
   timestamp |-> NoTime, analysis |-> NoAnalysis, failed |-> FALSE,
   calls |-> <<>>]

\* hindi.py: entrypoint when it starts to wait for a participant (line
\* 276): the session task runs, should_end_call is clear, the tracker and
\* the grievances table hold nothing of this call
NewEntrypoint ==
  [pc |-> "joining",
   should_end_call |-> FALSE,
   session |-> "running",
   must_cancel |-> FALSE,
   cancels |-> 0,
   grievance_text_english |-> <<>>,
   ending |-> <<>>,
   saved |-> <<>>,
   inserted |-> <<>>,
   reraise |-> FALSE]

\* processor.py: main() not yet started
NoBatch ==
  [pc |-> "start", db |-> <<>>, db_start |-> <<>>, pending_rows |-> <<>>,
   i |-> 0, analysis_result |-> [kind |-> "None"], visits |-> <<>>]

\* llm.py: GrievanceTracker.__init__
NewTracker ==
  [grievance_text |-> <<>>, conversation_history |-> <<>>, word_count |-> 0,
   log |-> <<>>]

VARIABLES
  bot,                        \* GrievanceBotLogic
  last_processed_transcript,  \* entrypoint's nonlocal
  is_playing,                 \* AudioFilePlayer.is_playing
  current_task,               \* AudioFilePlayer._current_task (0: None)
  cache,                      \* AudioFilePlayer._cache (its keys)
  badFiles,                   \* assets that fail to decode
  tasks,                      \* the stream tasks created so far
  co,                         \* each play() caller's position
  saveTask,                   \* the save_grievance_background task(s)
  stored,                     \* the calls of process_and_store
  disconnects,                \* calls of ctx.room.disconnect()
  sttAudio,                   \* audio was pushed to the STT stream
  nEvents,                    \* STT events received
  clock,                      \* the last value time.time() returned
  ev,                         \* the event the loop handled last
  calls,                      \* process_input calls made on bot directly
  dec,                        \* one run of the _decode_file generator
  gp,                         \* the GrievanceProcessor and its database
  hindi,                      \* hindi.py: one run of entrypoint
  batch,                      \* processor.py: one run of main()
  tracker                     \* llm.py: a GrievanceTracker

vars ==
  <<bot, last_processed_transcript, is_playing, current_task, cache,
    badFiles, tasks, co, saveTask, stored, disconnects, sttAudio, nEvents,
    clock, ev, calls, dec, gp,
    hindi, batch, tracker>>

NoEvent ==
  [type |-> "none", text |-> "", called |-> FALSE, playing |-> FALSE,
   ret |-> None, last |-> ""]

Idle(c) ==
  [pc |-> IF c = Loop THEN "recv" ELSE "unborn",
   waitOn |-> 0, key |-> None, file |-> "", inflight |-> {}]

Init ==
  /\ bot = NewBot
  /\ last_processed_transcript = ""
  /\ is_playing = FALSE
  /\ current_task = 0
  /\ badFiles \in BadFileChoices
  /\ cache = PreloadCache(badFiles)
  /\ tasks = <<>>
  /\ co = [c \in Callers |-> Idle(c)]
  /\ saveTask = [pc |-> "none", outcome |-> "none", created |-> 0]
  /\ stored = <<>>
  /\ disconnects = 0
  /\ sttAudio = FALSE
  /\ nEvents = 0
  /\ clock = 1
  /\ ev = NoEvent
  /\ calls = <<>>
  /\ dec = NoDecode
  /\ gp = NewProcessor
  /\ hindi = NewEntrypoint
  /\ batch = NoBatch
  /\ tracker = NewTracker

\* Task.done()
Done(t) == tasks[t].pc = "done"

\* the stream tasks that are not done
InFlight == {t \in 1..Len(tasks) : ~Done(t)}

\* play(), from `self.is_playing = True` to `await self._current_task`:
\* the new values of is_playing, _current_task, the tasks and the caller
StartStream(c, ts, file, key, inflight) ==
  [playing |-> TRUE,
   current |-> Len(ts) + 1,
   tasks |-> Append(ts,
               [file |-> file, cached |-> file \in cache, pc |-> "start",
                written |-> 0, must_cancel |-> FALSE, cancelled |-> FALSE,
                owner |-> c, key |-> key, preempts |-> inflight]),
   co |-> [pc |-> "line71", waitOn |-> Len(ts) + 1, key |-> key,
           file |-> file, inflight |-> {}]]

\* play(filename) up to its first suspension: cancel the current task and
\* wait for it (line 59), or start the stream and wait for it (line 71)
PlayEnter(c, file, key) ==
  IF current_task # 0 /\ ~Done(current_task)
  THEN [playing |-> is_playing,
        current |-> current_task,
        tasks |-> [tasks EXCEPT ![current_task].must_cancel = TRUE],
        co |-> [pc |-> "line59", waitOn |-> current_task, key |-> key,
                file |-> file, inflight |-> InFlight]]
  ELSE StartStream(c, tasks, file, key, InFlight)

\* frames the stream task has to write: the cached list, or what
\* _decode_file yields (nothing when av.open or the decoder raises, which
\* _stream_from_disk catches)
FramesOf(T) == IF ~T.cached /\ T.file \in badFiles THEN 0 ELSE NumFrames

\* ---- the stream task: _stream_cached / _stream_from_disk ----

\* One run of stream task t from its suspension point to the next one.  A
\* cancelled task gets CancelledError at the await it is suspended in (or
\* before its first step); `except Exception` does not catch it.
StreamStep(t) ==
  /\ t \in 1..Len(tasks)
  /\ ~Done(t)
  /\ LET T == tasks[t] IN
       tasks' =
         [tasks EXCEPT ![t] =
            IF T.must_cancel
              THEN [T EXCEPT !.pc = "done", !.cancelled = TRUE]
            ELSE IF T.pc = "capture"
              \* capture_frame returned: await asyncio.sleep(0.01)
              THEN [T EXCEPT !.pc = "sleep"]
            ELSE IF T.written < FramesOf(T)
              \* the next chunk: await self.source.capture_frame(lk_frame)
              THEN [T EXCEPT !.pc = "capture", !.written = @ + 1]
            ELSE [T EXCEPT !.pc = "done"]]
  /\ UNCHANGED <<bot, last_processed_transcript, is_playing, current_task,
                 cache, badFiles, co, saveTask, stored, disconnects,
                 sttAudio, nEvents, clock, ev, calls, dec, gp,
                 hindi, batch, tracker>>

\* ---- play(), resumed ----

\* line 59 `await self._current_task` returns or raises CancelledError,
\* which is passed over: the caller goes on to start its own stream
ResumeCancelWait(c) ==
  /\ co[c].pc = "line59"
  /\ Done(co[c].waitOn)
  /\ LET p == StartStream(c, tasks, co[c].file, co[c].key, co[c].inflight) IN
       /\ is_playing' = p.playing
       /\ current_task' = p.current
       /\ tasks' = p.tasks
       /\ co' = [co EXCEPT ![c] = p.co]
  /\ UNCHANGED <<bot, last_processed_transcript, cache, badFiles, saveTask,
                 stored, disconnects, sttAudio, nEvents, clock, ev, calls,
                 dec, gp,
                 hindi, batch, tracker>>

\* where process_stt_events goes on after `await player.play(...)` returned
LoopAfterPlay(audio_key) ==
  IF audio_key \in {"closing", "early_exit"} THEN "grace" ELSE "recv"

\* line 71 `await self._current_task` raises: the stream task was cancelled
\* by a later play(); nothing in play(), play_greeting or process_stt_events
\* catches the CancelledError, so the caller's task ends with it
PlayRaises(c) ==
  /\ co[c].pc = "line71"
  /\ Done(co[c].waitOn)
  /\ tasks[co[c].waitOn].cancelled
  /\ co' = [co EXCEPT ![c].pc = "raised", ![c].waitOn = 0]
  /\ UNCHANGED <<bot, last_processed_transcript, is_playing, current_task,
                 cache, badFiles, tasks, saveTask, stored, disconnects,
                 sttAudio, nEvents, clock, ev, calls, dec, gp,
                 hindi, batch, tracker>>

\* line 71 returns: is_playing = False, play() returns to play_greeting,
\* which ends
GreetingPlayed(c) ==
  /\ c \in Greetings
  /\ co[c].pc = "line71"
  /\ Done(co[c].waitOn)
  /\ ~tasks[co[c].waitOn].cancelled
  /\ is_playing' = FALSE
  /\ co' = [co EXCEPT ![c].pc = "done", ![c].waitOn = 0]
  /\ UNCHANGED <<bot, last_processed_transcript, current_task, cache,
                 badFiles, tasks, saveTask, stored, disconnects, sttAudio,
                 nEvents, clock, ev, calls, dec, gp,
                 hindi, batch, tracker>>

\* LoopPlayed with the CancelledError of line 71 passed over as line 59's is
LoopPlayedAnyOutcome ==
  /\ co[Loop].pc = "line71"
  /\ Done(co[Loop].waitOn)
  /\ is_playing' = FALSE
  /\ co' = [co EXCEPT ![Loop].pc = LoopAfterPlay(co[Loop].key),
                      ![Loop].waitOn = 0]
  /\ saveTask' = IF LoopAfterPlay(co[Loop].key) = "grace"
                 THEN [pc |-> "created", outcome |-> "none",
                       created |-> saveTask.created + 1]
                 ELSE saveTask
  /\ UNCHANGED <<bot, last_processed_transcript, current_task, cache,
                 badFiles, tasks, stored, disconnects, sttAudio, nEvents,
                 clock, ev, calls, dec, gp,
                 hindi, batch, tracker>>

\* line 71 returns in the transcript loop: is_playing = False; after the
\* closing cue the save task is created and the loop sleeps 0.5 s,
\* otherwise it waits for the next event
LoopPlayed ==
  /\ co[Loop].pc = "line71"
  /\ Done(co[Loop].waitOn)
  /\ ~tasks[co[Loop].waitOn].cancelled
  /\ is_playing' = FALSE
  /\ co' = [co EXCEPT ![Loop].pc = LoopAfterPlay(co[Loop].key),
                      ![Loop].waitOn = 0]
  /\ saveTask' = IF LoopAfterPlay(co[Loop].key) = "grace"
                 THEN [pc |-> "created", outcome |-> "none",
                       created |-> saveTask.created + 1]
                 ELSE saveTask
  /\ UNCHANGED <<bot, last_processed_transcript, current_task, cache,
                 badFiles, tasks, stored, disconnects, sttAudio, nEvents,
                 clock, ev, calls, dec, gp,
                 hindi, batch, tracker>>

\* asyncio.sleep(0.5) elapsed: await ctx.room.disconnect(); break
Disconnect ==
  /\ co[Loop].pc = "grace"
  /\ disconnects' = disconnects + 1
  /\ co' = [co EXCEPT ![Loop].pc = "ended"]
  /\ UNCHANGED <<bot, last_processed_transcript, is_playing, current_task,
                 cache, badFiles, tasks, saveTask, stored, sttAudio, nEvents,
                 clock, ev, calls, dec, gp,
                 hindi, batch, tracker>>

\* ---- save_grievance_background ----

\* first step: return when there is no save_data, else call
\* grievance_processor.process_and_store and wait for it
SaveStart ==
  /\ saveTask.pc = "created"
  /\ IF bot.save_data.present
     THEN /\ stored' = Append(stored,
                         [transcript |-> bot.save_data.transcript,
                          timestamp |-> bot.save_data.timestamp])
          /\ saveTask' = [saveTask EXCEPT !.pc = "awaiting"]
     ELSE /\ stored' = stored
          /\ saveTask' = [saveTask EXCEPT !.pc = "done",
                                          !.outcome = "skipped"]
  /\ UNCHANGED <<bot, last_processed_transcript, is_playing, current_task,
                 cache, badFiles, tasks, co, disconnects, sttAudio, nEvents,
                 clock, ev, calls, dec, gp,
                 hindi, batch, tracker>>

\* SaveFinish without the `finally`: save_data is cleared on success only
SaveFinishKeepsOnFailure ==
  /\ saveTask.pc = "awaiting"
  /\ \E outcome \in {"stored", "failed"} :
       /\ saveTask' = [saveTask EXCEPT !.pc = "done", !.outcome = outcome]
       /\ bot' = IF outcome = "stored"
                 THEN [bot EXCEPT !.save_data = NoSaveData] ELSE bot
  /\ UNCHANGED <<last_processed_transcript, is_playing, current_task, cache,
                 badFiles, tasks, co, stored, disconnects, sttAudio, nEvents,
                 clock, ev, calls, dec, gp,
                 hindi, batch, tracker>>

\* process_and_store returns or raises; `finally: self.save_data = None`
SaveFinish ==
  /\ saveTask.pc = "awaiting"
  /\ \E outcome \in {"stored", "failed"} :
       saveTask' = [saveTask EXCEPT !.pc = "done", !.outcome = outcome]
  /\ bot' = [bot EXCEPT !.save_data = NoSaveData]
  /\ UNCHANGED <<last_processed_transcript, is_playing, current_task, cache,
                 badFiles, tasks, co, stored, disconnects, sttAudio, nEvents,
                 clock, ev, calls, dec, gp,
                 hindi, batch, tracker>>

\* ---- on_track_subscribed, push_audio_to_stt, play_greeting ----

\* a track of kind audio is subscribed: push_audio_to_stt and play_greeting
\* tasks are created; play_greeting sleeps 1.5 s
TrackSubscribed ==
  /\ disconnects = 0
  /\ \E g \in Greetings :
       /\ co[g].pc = "unborn"
       /\ \A h \in Greetings : h < g => co[h].pc # "unborn"
       /\ co' = [co EXCEPT ![g].pc = "sleep"]
  /\ UNCHANGED <<bot, last_processed_transcript, is_playing, current_task,
                 cache, badFiles, tasks, saveTask, stored, disconnects,
                 sttAudio, nEvents, clock, ev, calls, dec, gp,
                 hindi, batch, tracker>>

\* push_audio_to_stt: `if not player.is_playing: stt_stream.push_frame(...)`
PushAudio ==
  /\ disconnects = 0
  /\ \E g \in Greetings : co[g].pc # "unborn"
  /\ ~is_playing
  /\ ~sttAudio
  /\ sttAudio' = TRUE
  /\ UNCHANGED <<bot, last_processed_transcript, is_playing, current_task,
                 cache, badFiles, tasks, co, saveTask, stored, disconnects,
                 nEvents, clock, ev, calls, dec, gp,
                 hindi, batch, tracker>>

\* play_greeting: the 1.5 s sleep elapsed, play(AUDIO_FILES["greeting"]).
\* The sleeps are equally long, so they elapse in the order they began.
GreetingWakes(g) ==
  /\ g \in Greetings
  /\ co[g].pc = "sleep"
  /\ \A h \in Greetings : h < g => co[h].pc # "sleep"
  /\ LET p == PlayEnter(g, AUDIO_FILES["greeting"], "greeting") IN
       /\ is_playing' = p.playing
       /\ current_task' = p.current
       /\ tasks' = p.tasks
       /\ co' = [co EXCEPT ![g] = p.co]
  /\ UNCHANGED <<bot, last_processed_transcript, cache, badFiles, saveTask,
                 stored, disconnects, sttAudio, nEvents, clock, ev, calls,
                 dec, gp,
                 hindi, batch, tracker>>

\* ---- process_stt_events ----

\* SkipFinal without the comparison with last_processed_transcript
SkipFinalEmptyOnly(transcript, last) == transcript = ""

\* `if not transcript or transcript == last_processed_transcript: continue`
SkipFinal(transcript, last) == transcript = "" \/ transcript = last

\* the asset the loop passes to player.play for an action token
FileFor(audio_key) ==
  IF audio_key \in {"closing", "early_exit"}
  THEN AUDIO_FILES["closing"]
  ELSE AUDIO_FILES[audio_key]

\* an INTERIM_TRANSCRIPT event: at most a print
ReceiveInterim ==
  /\ co[Loop].pc = "recv"
  /\ sttAudio
  /\ nEvents < MaxEvents
  /\ nEvents' = nEvents + 1
  /\ \E text \in InterimTexts :
       ev' = [type |-> "interim", text |-> text, called |-> FALSE,
              playing |-> is_playing, ret |-> None,
              last |-> last_processed_transcript]
  /\ UNCHANGED <<bot, last_processed_transcript, is_playing, current_task,
                 cache, badFiles, tasks, co, saveTask, stored, disconnects,
                 sttAudio, clock, calls, dec, gp,
                 hindi, batch, tracker>>

\* a FINAL_TRANSCRIPT event, handled up to the loop's next await
ReceiveFinal ==
  /\ co[Loop].pc = "recv"
  /\ sttAudio
  /\ nEvents < MaxEvents
  /\ nEvents' = nEvents + 1
  /\ sttAudio' = FALSE
  /\ \E transcript \in Utterances, now \in clock..MaxClock,
        rnd \in BOOLEAN, ack \in 1..Len(ack_sounds) :
       \* time.time() is nondecreasing; it is drawn where it is read
       /\ now # clock => (/\ ~SkipFinal(transcript, last_processed_transcript)
                          /\ ReadsClock(bot, transcript))
       /\ IF SkipFinal(transcript, last_processed_transcript)
          THEN /\ ev' = [type |-> "final", text |-> transcript,
                         called |-> FALSE, playing |-> is_playing,
                         ret |-> None, last |-> last_processed_transcript]
               /\ UNCHANGED <<bot, last_processed_transcript, is_playing,
                              current_task, tasks, co, clock>>
          ELSE LET r == ProcessInput(bot, transcript, now, rnd, ack) IN
               /\ ev' = [type |-> "final", text |-> transcript,
                         called |-> TRUE, playing |-> is_playing,
                         ret |-> r.ret, last |-> last_processed_transcript]
               /\ last_processed_transcript' = transcript
               /\ bot' = r.bot
               /\ clock' = now
               /\ IF r.ret # None
                  THEN LET p == PlayEnter(Loop, FileFor(r.ret), r.ret) IN
                       /\ is_playing' = p.playing
                       /\ current_task' = p.current
                       /\ tasks' = p.tasks
                       /\ co' = [co EXCEPT ![Loop] = p.co]
                  ELSE UNCHANGED <<is_playing, current_task, tasks, co>>
  /\ UNCHANGED <<cache, badFiles, saveTask, stored, disconnects, calls,
                 dec, gp,
                 hindi, batch, tracker>>

Next ==
  \/ TrackSubscribed
  \/ PushAudio
  \/ \E g \in Greetings : GreetingWakes(g)
  \/ ReceiveInterim
  \/ ReceiveFinal
  \/ \E t \in TaskIds : StreamStep(t)
  \/ \E c \in Callers : ResumeCancelWait(c)
  \/ \E c \in Callers : PlayRaises(c)
  \/ \E g \in Greetings : GreetingPlayed(g)
  \/ LoopPlayed
  \/ Disconnect
  \/ SaveStart
  \/ SaveFinish

Spec == Init /\ [][Next]_vars

(***************************************************************************)
(* GrievanceBotLogic on its own: process_input called on one bot with any  *)
(* utterance, as a caller other than the transcript loop may call it.      *)
(***************************************************************************)

\* process_input calls made on the bot
MaxCalls == 3

LogicInit == Init /\ badFiles = {}

\* one call bot.process_input(text); calls keeps its argument, the value
\* of time.time(), what it returned and the bot before and after it
CallProcessInput ==
  /\ Len(calls) < MaxCalls
  /\ \E text \in DialogueUtterances, now \in clock..MaxClock,
        rnd \in BOOLEAN :
      \E ack \in IF rnd THEN 1..Len(ack_sounds) ELSE {1} :
       /\ now # clock => ReadsClock(bot, text)
       /\ LET r == ProcessInput(bot, text, now, rnd, ack) IN
            /\ bot' = r.bot
            /\ clock' = now
            /\ calls' = Append(calls,
                           [text |-> text, now |-> now, ret |-> r.ret,
                            before |-> bot, after |-> r.bot])
  /\ UNCHANGED <<last_processed_transcript, is_playing, current_task, cache,
                 badFiles, tasks, co, saveTask, stored, disconnects,
                 sttAudio, nEvents, ev, dec, gp,
                 hindi, batch, tracker>>

LogicNext == CallProcessInput

SpecLogic == LogicInit /\ [][LogicNext]_vars

(***************************************************************************)
(* voice.py: GrievanceBotLogic, called on its own as in SpecLogic.         *)
(***************************************************************************)

\* voice.py: GrievanceBotLogic.__init__
VoiceNewBot ==
  [state |-> "greeting",
   grievance_text |-> "",
   should_disconnect |-> FALSE,
   grievance_timestamp |-> NoTime,
   has_played_probe |-> FALSE]

\* voice.py: the outcome of the strong exit loop on each utterance, computed
\* once
VoiceStrongFacts ==
  [u \in DialogueUtterances |-> VoiceStrongExit(Lower(Strip(u)))]

\* voice.py: GrievanceBotLogic.process_input(text); spawned tells whether
\* _save_and_exit created the background task
VoiceProcessInput(b, text, now, rnd, ack) ==
  LET f == Facts(text)
      text_clean == f.text_clean
      word_count == f.word_count
      stay(b2, ret) == [bot |-> b2, ret |-> ret, spawned |-> FALSE]
  IN
  IF b.should_disconnect THEN stay(b, None)
  ELSE IF f.question THEN
    stay(IF b.state = "listening"
         THEN [b EXCEPT !.grievance_text = @ \o " " \o text_clean]
         ELSE b,
         None)
  ELSE IF b.state = "greeting" THEN
    IF f.refusal THEN
      stay([b EXCEPT !.state = "closing", !.should_disconnect = TRUE],
           "early_exit")
    ELSE
      LET b1 == [b EXCEPT !.state = "listening",
                          !.grievance_text = @ \o text_clean,
                          !.grievance_timestamp = now]
      IN  IF word_count > 7
          THEN stay([b1 EXCEPT !.has_played_probe = TRUE], "probe_details")
          ELSE stay(b1, None)
  ELSE IF b.state = "listening" THEN
    LET b1 == [b EXCEPT !.grievance_text = @ \o " " \o text_clean]
        should_exit_listening ==
          \/ VoiceStrongFacts[text]
          \/ f.farewell
          \/ f.gratitude
    IN  IF should_exit_listening THEN
          \* _save_and_exit
          [bot |-> [b1 EXCEPT !.state = "closing",
                              !.should_disconnect = TRUE],
           ret |-> "closing", spawned |-> TRUE]
        ELSE IF word_count < 2 THEN stay(b1, None)
        ELSE IF ~b1.has_played_probe THEN
          IF word_count > 5
          THEN stay([b1 EXCEPT !.has_played_probe = TRUE], "probe_details")
          ELSE stay(b1, None)
        ELSE IF word_count > 7 /\ rnd THEN stay(b1, ack_sounds[ack])
        ELSE stay(b1, None)
  ELSE stay(b, None)

VoiceInit ==
  /\ bot = VoiceNewBot
  /\ last_processed_transcript = ""
  /\ is_playing = FALSE
  /\ current_task = 0
  /\ badFiles = {}
  /\ cache = PreloadCache(badFiles)
  /\ tasks = <<>>
  /\ co = [c \in Callers |-> Idle(c)]
  /\ saveTask = [pc |-> "none", outcome |-> "none", created |-> 0]
  /\ stored = <<>>
  /\ disconnects = 0
  /\ sttAudio = FALSE
  /\ nEvents = 0
  /\ clock = 1
  /\ ev = NoEvent
  /\ calls = <<>>
  /\ dec = NoDecode
  /\ gp = NewProcessor
  /\ hindi = NewEntrypoint
  /\ batch = NoBatch
  /\ tracker = NewTracker

\* one call bot.process_input(text) of voice.py's bot
CallVoiceProcessInput ==
  /\ Len(calls) < MaxCalls
  /\ \E text \in DialogueUtterances, now \in clock..MaxClock,
        rnd \in BOOLEAN :
      \E ack \in IF rnd THEN 1..Len(ack_sounds) ELSE {1} :
       /\ now # clock => ReadsClock(bot, text)
       /\ LET r == VoiceProcessInput(bot, text, now, rnd, ack) IN
            /\ bot' = r.bot
            /\ clock' = now
            /\ saveTask' =
                 IF r.spawned
                 THEN [pc |-> "created", outcome |-> "none",
                       created |-> saveTask.created + 1]
                 ELSE saveTask
            /\ calls' = Append(calls,
                           [text |-> text, now |-> now, ret |-> r.ret,
                            before |-> bot, after |-> r.bot])
  /\ UNCHANGED <<last_processed_transcript, is_playing, current_task, cache,
                 badFiles, tasks, co, stored, disconnects, sttAudio,
                 nEvents, ev, dec, gp,
                 hindi, batch, tracker>>

VoiceNext == CallVoiceProcessInput

SpecVoice == VoiceInit /\ [][VoiceNext]_vars

(***************************************************************************)
(* voice.py: the session.  Its AudioFilePlayer and on_track_subscribed     *)
(* read as agent.py's do; its transcript loop differs.                     *)
(***************************************************************************)

\* voice.py: AUDIO_FILES
VoiceAudioFiles ==
  [greeting |-> "audio/greeting_new.mp3",
   closing |-> "audio/closing_new.mp3",
   early_exit |-> "audio/early_closing.mp3",
   probe_details |-> "audio/probe_details_short.mp3",
   ack_1 |-> "audio/hmm.mp3",
   ack_2 |-> "audio/i_see.mp3",
   ack_3 |-> "audio/ohh_isit.mp3"]

\* the assets that fail to open or decode in this run (the environment)
VoiceBadFileChoices == {{}, {VoiceAudioFiles["closing"]}}

\* AudioFilePlayer.preload: self._cache after it ran, a failing asset skipped
VoicePreloadCache(bad) ==
  {VoiceAudioFiles[k] :
     k \in {q \in DOMAIN VoiceAudioFiles :
              Contains(q, "ack") \/ Contains(q, "greeting")}} \ bad

VoiceSessionInit ==
  /\ bot = VoiceNewBot
  /\ last_processed_transcript = ""
  /\ is_playing = FALSE
  /\ current_task = 0
  /\ badFiles \in VoiceBadFileChoices
  /\ cache = VoicePreloadCache(badFiles)
  /\ tasks = <<>>
  /\ co = [c \in Callers |-> Idle(c)]
  /\ saveTask = [pc |-> "none", outcome |-> "none", created |-> 0]
  /\ stored = <<>>
  /\ disconnects = 0
  /\ sttAudio = FALSE
  /\ nEvents = 0
  /\ clock = 1
  /\ ev = NoEvent
  /\ calls = <<>>
  /\ dec = NoDecode
  /\ gp = NewProcessor
  /\ hindi = NewEntrypoint
  /\ batch = NoBatch
  /\ tracker = NewTracker

\* the variables voice.py's session leaves alone
notVoice == <<last_processed_transcript, cache, badFiles, calls, dec, gp,
    hindi, batch, tracker>>

\* play(), from `self.is_playing = True` to `await self._current_task`
\* (line 74)
VoiceStartStream(c, ts, file, key) ==
  [playing |-> TRUE,
   current |-> Len(ts) + 1,
   tasks |-> Append(ts,
               [file |-> file, cached |-> file \in cache, pc |-> "start",
                written |-> 0, must_cancel |-> FALSE, cancelled |-> FALSE,
                owner |-> c, key |-> key]),
   co |-> [pc |-> "line74", waitOn |-> Len(ts) + 1, key |-> key,
           file |-> file, inflight |-> {}]]

\* play(filename) up to its first suspension: cancel the current task and
\* wait for it (line 62), or start the stream and wait for it (line 74)
VoicePlayEnter(c, file, key) ==
  IF current_task # 0 /\ ~Done(current_task)
  THEN [playing |-> is_playing,
        current |-> current_task,
        tasks |-> [tasks EXCEPT ![current_task].must_cancel = TRUE],
        co |-> [pc |-> "line62", waitOn |-> current_task, key |-> key,
                file |-> file, inflight |-> {}]]
  ELSE VoiceStartStream(c, tasks, file, key)

\* One run of stream task t (_stream_cached / _stream_from_disk) from its
\* suspension point to the next one; _decode_file yields nothing when
\* av.open or the decoder raises, which _stream_from_disk catches; a
\* cancelled task gets CancelledError at its await.
VoiceStreamStep(t) ==
  /\ t \in 1..Len(tasks)
  /\ ~Done(t)
  /\ tasks' =
       [tasks EXCEPT ![t] =
          IF @.must_cancel
            THEN [@ EXCEPT !.pc = "done", !.cancelled = TRUE]
          ELSE IF @.pc = "capture"
            THEN [@ EXCEPT !.pc = "sleep"]
          ELSE IF @.written <
                    (IF ~@.cached /\ @.file \in badFiles THEN 0 ELSE NumFrames)
            THEN [@ EXCEPT !.pc = "capture", !.written = @ + 1]
          ELSE [@ EXCEPT !.pc = "done"]]
  /\ UNCHANGED <<bot, is_playing, current_task, co, saveTask, stored,
                 disconnects, sttAudio, nEvents, clock, ev>>
  /\ UNCHANGED notVoice

\* line 62 `await self._current_task` returns or raises CancelledError,
\* which is passed over: the caller goes on to start its own stream
VoiceResumeCancelWait(c) ==
  /\ co[c].pc = "line62"
  /\ Done(co[c].waitOn)
  /\ is_playing' = TRUE
  /\ current_task' = Len(tasks) + 1
  /\ tasks' = VoiceStartStream(c, tasks, co[c].file, co[c].key).tasks
  /\ co' = [co EXCEPT ![c] =
              VoiceStartStream(c, tasks, co[c].file, co[c].key).co]
  /\ UNCHANGED <<bot, saveTask, stored, disconnects, sttAudio, nEvents,
                 clock, ev>>
  /\ UNCHANGED notVoice

\* line 74 `await self._current_task` raises: the stream task was cancelled
\* by a later play(); nothing catches the CancelledError and the caller's
\* task ends with it
VoicePlayRaises(c) ==
  /\ co[c].pc = "line74"
  /\ Done(co[c].waitOn)
  /\ tasks[co[c].waitOn].cancelled
  /\ co' = [co EXCEPT ![c].pc = "raised", ![c].waitOn = 0]
  /\ UNCHANGED <<bot, is_playing, current_task, tasks, saveTask, stored,
                 disconnects, sttAudio, nEvents, clock, ev>>
  /\ UNCHANGED notVoice

\* line 74 returns: is_playing = False and play() returns;
\* play_greeting_after_delay ends, the transcript loop sleeps 1 s after a
\* closing cue and else waits for the next event
VoicePlayed(c) ==
  /\ co[c].pc = "line74"
  /\ Done(co[c].waitOn)
  /\ ~tasks[co[c].waitOn].cancelled
  /\ is_playing' = FALSE
  /\ co' = [co EXCEPT ![c].waitOn = 0,
                      ![c].pc = IF c # Loop THEN "done"
                                ELSE IF co[c].key \in {"closing", "early_exit"}
                                  THEN "grace"
                                ELSE "recv"]
  /\ UNCHANGED <<bot, current_task, tasks, saveTask, stored, disconnects,
                 sttAudio, nEvents, clock, ev>>
  /\ UNCHANGED notVoice

\* asyncio.sleep(1.0) elapsed: await ctx.room.disconnect(); break
VoiceDisconnect ==
  /\ co[Loop].pc = "grace"
  /\ disconnects' = disconnects + 1
  /\ co' = [co EXCEPT ![Loop].pc = "ended"]
  /\ UNCHANGED <<bot, is_playing, current_task, tasks, saveTask, stored,
                 sttAudio, nEvents, clock, ev>>
  /\ UNCHANGED notVoice

\* the _process_grievance_background task: process_and_store(
\* self.grievance_text, self.grievance_timestamp or time.time()), any
\* exception printed
VoiceProcessGrievanceBackground ==
  /\ saveTask.pc = "created"
  /\ \E now \in clock..MaxClock, outcome \in {"stored", "failed"} :
       /\ now # clock => bot.grievance_timestamp = NoTime
       /\ clock' = now
       /\ stored' = Append(stored,
                      [transcript |-> bot.grievance_text,
                       timestamp |-> IF bot.grievance_timestamp # NoTime
                                     THEN bot.grievance_timestamp ELSE now])
       /\ saveTask' = [saveTask EXCEPT !.pc = "done", !.outcome = outcome]
  /\ UNCHANGED <<bot, is_playing, current_task, tasks, co, disconnects,
                 sttAudio, nEvents, ev>>
  /\ UNCHANGED notVoice

\* on_track_subscribed: push_audio_to_stt and play_greeting_after_delay
\* tasks are created; the latter sleeps 1.5 s
VoiceTrackSubscribed ==
  /\ disconnects = 0
  /\ \E g \in Greetings :
       /\ co[g].pc = "unborn"
       /\ \A h \in Greetings : h < g => co[h].pc # "unborn"
       /\ co' = [co EXCEPT ![g].pc = "sleep"]
  /\ UNCHANGED <<bot, is_playing, current_task, tasks, saveTask, stored,
                 disconnects, sttAudio, nEvents, clock, ev>>
  /\ UNCHANGED notVoice

\* push_audio_to_stt: `if not player.is_playing: stt_stream.push_frame(...)`
VoicePushAudio ==
  /\ disconnects = 0
  /\ \E g \in Greetings : co[g].pc # "unborn"
  /\ ~is_playing
  /\ ~sttAudio
  /\ sttAudio' = TRUE
  /\ UNCHANGED <<bot, is_playing, current_task, tasks, co, saveTask, stored,
                 disconnects, nEvents, clock, ev>>
  /\ UNCHANGED notVoice

\* play_greeting_after_delay: the 1.5 s sleep elapsed,
\* p.play(AUDIO_FILES["greeting"])
VoiceGreetingWakes(g) ==
  /\ g \in Greetings
  /\ co[g].pc = "sleep"
  /\ \A h \in Greetings : h < g => co[h].pc # "sleep"
  /\ is_playing' = VoicePlayEnter(g, VoiceAudioFiles["greeting"],
                                  "greeting").playing
  /\ current_task' = VoicePlayEnter(g, VoiceAudioFiles["greeting"],
                                    "greeting").current
  /\ tasks' = VoicePlayEnter(g, VoiceAudioFiles["greeting"],
                             "greeting").tasks
  /\ co' = [co EXCEPT ![g] = VoicePlayEnter(g, VoiceAudioFiles["greeting"],
                                            "greeting").co]
  /\ UNCHANGED <<bot, saveTask, stored, disconnects, sttAudio, nEvents,
                 clock, ev>>
  /\ UNCHANGED notVoice

\* process_stt_events: an INTERIM_TRANSCRIPT event.  While audio is playing
\* and the text is longer than 5 characters the loop calls player.stop();
\* AudioFilePlayer has no attribute stop, so AttributeError is raised and
\* ends process_stt_events.
VoiceReceiveInterim ==
  /\ co[Loop].pc = "recv"
  /\ sttAudio
  /\ nEvents < MaxEvents
  /\ nEvents' = nEvents + 1
  /\ \E text \in InterimTexts :
       /\ ev' = [type |-> "interim", text |-> text, called |-> FALSE,
                 playing |-> is_playing, ret |-> None, last |-> ""]
       /\ co' = IF is_playing /\ Len(text) > 5
                THEN [co EXCEPT ![Loop].pc = "raised"]
                ELSE co
  /\ UNCHANGED <<bot, is_playing, current_task, tasks, saveTask, stored,
                 disconnects, sttAudio, clock>>
  /\ UNCHANGED notVoice

\* what the loop does with the value process_input returned, up to its
\* next await: `if audio_key: await player.play(AUDIO_FILES[audio_key])`
VoiceAfterInput(r) ==
  /\ bot' = r.bot
  /\ saveTask' = IF r.spawned
                 THEN [pc |-> "created", outcome |-> "none",
                       created |-> saveTask.created + 1]
                 ELSE saveTask
  /\ IF r.ret # None
     THEN /\ is_playing' =
               VoicePlayEnter(Loop, VoiceAudioFiles[r.ret], r.ret).playing
          /\ current_task' =
               VoicePlayEnter(Loop, VoiceAudioFiles[r.ret], r.ret).current
          /\ tasks' = VoicePlayEnter(Loop, VoiceAudioFiles[r.ret], r.ret).tasks
          /\ co' = [co EXCEPT ![Loop] =
                      VoicePlayEnter(Loop, VoiceAudioFiles[r.ret], r.ret).co]
     ELSE UNCHANGED <<is_playing, current_task, tasks, co>>

\* process_stt_events: a FINAL_TRANSCRIPT event, handled up to the loop's
\* next await
VoiceReceiveFinal ==
  /\ co[Loop].pc = "recv"
  /\ sttAudio
  /\ nEvents < MaxEvents
  /\ nEvents' = nEvents + 1
  /\ sttAudio' = FALSE
  /\ \E transcript \in Utterances, now \in clock..MaxClock,
        rnd \in BOOLEAN, ack \in 1..Len(ack_sounds) :
       /\ now # clock => (transcript # "" /\ ReadsClock(bot, transcript))
       /\ clock' = now
       /\ ev' = [type |-> "final", text |-> transcript,
                 called |-> transcript # "", playing |-> is_playing,
                 ret |-> IF transcript = "" THEN None
                         ELSE VoiceProcessInput(bot, transcript, now, rnd,
                                                ack).ret,
                 last |-> ""]
       /\ IF transcript = ""
          THEN UNCHANGED <<bot, saveTask, is_playing, current_task, tasks, co>>
          ELSE VoiceAfterInput(VoiceProcessInput(bot, transcript, now, rnd,
                                                 ack))
  /\ UNCHANGED <<stored, disconnects>>
  /\ UNCHANGED notVoice

VoiceSessionNext ==
  \/ VoiceTrackSubscribed
  \/ VoicePushAudio
  \/ \E g \in Greetings : VoiceGreetingWakes(g)
  \/ VoiceReceiveInterim
  \/ VoiceReceiveFinal
  \/ \E t \in TaskIds : VoiceStreamStep(t)
  \/ \E c \in Callers : VoiceResumeCancelWait(c)
  \/ \E c \in Callers : VoicePlayRaises(c)
  \/ \E c \in Callers : VoicePlayed(c)
  \/ VoiceDisconnect
  \/ VoiceProcessGrievanceBackground

SpecVoiceSession == VoiceSessionInit /\ [][VoiceSessionNext]_vars

(***************************************************************************)
(* voice_agent_with_storage.py: the session of the agent that stores the   *)
(* grievance.  AUDIO_FILES is modelled as the dictionary its six entries   *)
(* spell (as written the line of "closing" lacks its comma).               *)
(***************************************************************************)

\* voice_agent_with_storage.py: AUDIO_FILES
StorageAudioFiles ==
  [greeting |-> "audio/greeting.mp3",
   continue |-> "audio/continue.mp3",
   closing |-> "audio/closing.mp3",
   ack_1 |-> "audio/hmm_hmm.mp3",
   ack_2 |-> "audio/i_see.mp3",
   ack_3 |-> "audio/ohh_isit.mp3"]

\* the assets that may be missing from disk (os.path.exists is false)
MissingFileChoices ==
  {{}, {StorageAudioFiles["greeting"]}, {StorageAudioFiles["closing"]}}

\* process_input: the words that close the session in the greeting phase
storage_greeting_exit_words == <<"bye", "exit", "nothing", "no">>

\* process_input: exit_words
storage_exit_words ==
  <<"done", "finished", "that's all", "that's it", "thank you", "thanks",
    "bye", "goodbye">>

\* any(w in text_lower for w in ws)
AnyIn(ws, text_lower) == \E k \in 1..Len(ws) : Contains(text_lower, ws[k])

\* what process_input computes from its argument alone
StorageTextFacts(text) ==
  LET text_lower == Strip(Lower(text)) IN
    [word_count |-> WordCount(text_lower),
     greeting_exit |-> AnyIn(storage_greeting_exit_words, text_lower),
     listening_exit |-> AnyIn(storage_exit_words, text_lower)]

\* the final transcripts the STT stream delivers
StorageUtterances ==
  {"", "hello", "No", "i was paid less than my team",
   "the shift lead cut my pay last week and he said it was a late fee but i was early",
   "ok that's all"}

StorageFacts == [u \in StorageUtterances |-> StorageTextFacts(u)]

\* GrievanceBotLogic.__init__
StorageNewBot(now) ==
  [state |-> "greeting",
   grievance_text |-> "",
   should_disconnect |-> FALSE,
   continue_played |-> FALSE,
   last_input_time |-> now,
   total_word_count |-> 0,
   grievance_timestamp |-> NoTime]

\* process_input that plays "continue" whenever the counts allow it
StorageProcessInputContinueRepeats(b, text, now) ==
  LET f == StorageFacts[text]
      word_count == f.word_count
      stay(b2, ret) == [bot |-> b2, ret |-> ret, spawned |-> FALSE]
  IN
  IF b.should_disconnect THEN stay(b, None)
  ELSE
    LET b0 == [b EXCEPT !.total_word_count = @ + word_count,
                        !.last_input_time = now]
    IN
    IF b0.state = "greeting" THEN
      IF f.greeting_exit
      THEN stay([b0 EXCEPT !.state = "closing", !.should_disconnect = TRUE],
                "closing")
      ELSE stay([b0 EXCEPT !.state = "listening",
                           !.grievance_text = @ \o text,
                           !.grievance_timestamp = now,
                           !.continue_played = FALSE],
                None)
    ELSE IF b0.state = "listening" THEN
      LET b1 == [b0 EXCEPT !.grievance_text = @ \o " " \o text] IN
        IF f.listening_exit THEN
          [bot |-> [b1 EXCEPT !.state = "closing",
                              !.should_disconnect = TRUE],
           ret |-> "closing", spawned |-> TRUE]
        ELSE IF word_count < 5 THEN stay(b1, None)
        ELSE IF /\ b1.total_word_count >= 20
                /\ word_count >= 5
          THEN stay([b1 EXCEPT !.continue_played = TRUE], "continue")
        ELSE stay(b1, None)
    ELSE stay(b0, None)

\* GrievanceBotLogic.process_input(text); spawned tells whether the
\* _process_grievance task was created
StorageProcessInput(b, text, now) ==
  LET f == StorageFacts[text]
      word_count == f.word_count
      stay(b2, ret) == [bot |-> b2, ret |-> ret, spawned |-> FALSE]
  IN
  IF b.should_disconnect THEN stay(b, None)
  ELSE
    LET b0 == [b EXCEPT !.total_word_count = @ + word_count,
                        !.last_input_time = now]
    IN
    IF b0.state = "greeting" THEN
      IF f.greeting_exit
      THEN stay([b0 EXCEPT !.state = "closing", !.should_disconnect = TRUE],
                "closing")
      ELSE stay([b0 EXCEPT !.state = "listening",
                           !.grievance_text = @ \o text,
                           !.grievance_timestamp = now,
                           !.continue_played = FALSE],
                None)
    ELSE IF b0.state = "listening" THEN
      LET b1 == [b0 EXCEPT !.grievance_text = @ \o " " \o text] IN
        IF f.listening_exit THEN
          [bot |-> [b1 EXCEPT !.state = "closing",
                              !.should_disconnect = TRUE],
           ret |-> "closing", spawned |-> TRUE]
        ELSE IF word_count < 5 THEN stay(b1, None)
        ELSE IF /\ ~b1.continue_played
                /\ b1.total_word_count >= 20
                /\ word_count >= 5
          THEN stay([b1 EXCEPT !.continue_played = TRUE], "continue")
        ELSE stay(b1, None)
    ELSE stay(b0, None)

\* the variables the storage agent does not have
notStorage == <<last_processed_transcript, cache, calls, dec, gp,
    hindi, batch, tracker>>

StorageInit ==
  /\ clock = 1
  /\ bot = StorageNewBot(clock)
  /\ last_processed_transcript = ""
  /\ is_playing = FALSE
  /\ current_task = 0
  /\ badFiles \in MissingFileChoices
  /\ cache = {}
  /\ tasks = <<>>
  /\ co = [c \in Callers |-> Idle(c)]
  /\ saveTask = [pc |-> "none", outcome |-> "none", created |-> 0]
  /\ stored = <<>>
  /\ disconnects = 0
  /\ sttAudio = FALSE
  /\ nEvents = 0
  /\ ev = NoEvent
  /\ calls = <<>>
  /\ dec = NoDecode
  /\ gp = NewProcessor
  /\ hindi = NewEntrypoint
  /\ batch = NoBatch
  /\ tracker = NewTracker

\* where the caller of play() goes on when play() has returned: the loop
\* sleeps 2 s before it disconnects or waits for the next event,
\* play_greeting_after_delay ends
StorageAfterPlay(c, should_disconnect) ==
  IF c # Loop THEN "done"
  ELSE IF should_disconnect THEN "grace" ELSE "recv"

\* play(), from `if not os.path.exists(filename)` to its return (line 53)
\* or to `await self._current_task` (line 58)
StoragePlayStart(c, ts, file, key, should_disconnect) ==
  IF file \in badFiles
  THEN [playing |-> is_playing,
        current |-> current_task,
        tasks |-> ts,
        co |-> [pc |-> StorageAfterPlay(c, should_disconnect), waitOn |-> 0,
                key |-> key, file |-> file, inflight |-> {}]]
  ELSE [playing |-> TRUE,
        current |-> Len(ts) + 1,
        tasks |-> Append(ts,
                    [file |-> file, pc |-> "start", written |-> 0,
                     must_cancel |-> FALSE, cancelled |-> FALSE,
                     owner |-> c, key |-> key]),
        co |-> [pc |-> "line58", waitOn |-> Len(ts) + 1, key |-> key,
                file |-> file, inflight |-> {}]]

\* play(filename) up to its first suspension or its return: cancel the
\* current task and wait for it (line 47), or go on as StoragePlayStart
StoragePlayEnter(c, file, key, should_disconnect) ==
  IF current_task # 0 /\ ~Done(current_task)
  THEN [playing |-> is_playing,
        current |-> current_task,
        tasks |-> [tasks EXCEPT ![current_task].must_cancel = TRUE],
        co |-> [pc |-> "line47", waitOn |-> current_task, key |-> key,
                file |-> file, inflight |-> {}]]
  ELSE StoragePlayStart(c, tasks, file, key, should_disconnect)

\* One run of the _stream_file task t from its suspension point to the next
\* one; a cancelled task gets CancelledError, which `except Exception` does
\* not catch, and ends after its `finally`.
StorageStreamStep(t) ==
  /\ t \in 1..Len(tasks)
  /\ ~Done(t)
  /\ LET T == tasks[t] IN
       tasks' =
         [tasks EXCEPT ![t] =
            IF T.must_cancel
              THEN [T EXCEPT !.pc = "done", !.cancelled = TRUE]
            ELSE IF T.pc = "capture"
              THEN [T EXCEPT !.pc = "sleep"]
            ELSE IF T.written < NumFrames
              THEN [T EXCEPT !.pc = "capture", !.written = @ + 1]
            ELSE [T EXCEPT !.pc = "done"]]
  /\ UNCHANGED <<bot, is_playing, current_task, badFiles, co, saveTask,
                 stored, disconnects, sttAudio, nEvents, clock, ev>>
  /\ UNCHANGED notStorage

\* line 47 `await self._current_task` raises CancelledError, which is
\* passed over: play() goes on at `if not os.path.exists(filename)`
StorageResumeCancelWait(c) ==
  /\ co[c].pc = "line47"
  /\ Done(co[c].waitOn)
  /\ LET p == StoragePlayStart(c, tasks, co[c].file, co[c].key,
                               bot.should_disconnect) IN
       /\ is_playing' = p.playing
       /\ current_task' = p.current
       /\ tasks' = p.tasks
       /\ co' = [co EXCEPT ![c] = p.co]
  /\ UNCHANGED <<bot, badFiles, saveTask, stored, disconnects, sttAudio,
                 nEvents, clock, ev>>
  /\ UNCHANGED notStorage

\* line 58 `await self._current_task` raises: the stream task was cancelled
\* by a later play(); nothing catches the CancelledError, the caller's task
\* ends with it and `self.is_playing = False` is not run
StoragePlayRaises(c) ==
  /\ co[c].pc = "line58"
  /\ Done(co[c].waitOn)
  /\ tasks[co[c].waitOn].cancelled
  /\ co' = [co EXCEPT ![c].pc = "raised", ![c].waitOn = 0]
  /\ UNCHANGED <<bot, is_playing, current_task, badFiles, tasks, saveTask,
                 stored, disconnects, sttAudio, nEvents, clock, ev>>
  /\ UNCHANGED notStorage

\* line 58 returns: is_playing = False, play() returns to its caller
StoragePlayed(c) ==
  /\ co[c].pc = "line58"
  /\ Done(co[c].waitOn)
  /\ ~tasks[co[c].waitOn].cancelled
  /\ is_playing' = FALSE
  /\ co' = [co EXCEPT ![c].pc = StorageAfterPlay(c, bot.should_disconnect),
                      ![c].waitOn = 0]
  /\ UNCHANGED <<bot, current_task, badFiles, tasks, saveTask, stored,
                 disconnects, sttAudio, nEvents, clock, ev>>
  /\ UNCHANGED notStorage

\* asyncio.sleep(2) elapsed: await ctx.room.disconnect(); break
StorageDisconnect ==
  /\ co[Loop].pc = "grace"
  /\ disconnects' = disconnects + 1
  /\ co' = [co EXCEPT ![Loop].pc = "ended"]
  /\ UNCHANGED <<bot, is_playing, current_task, badFiles, tasks, saveTask,
                 stored, sttAudio, nEvents, clock, ev>>
  /\ UNCHANGED notStorage

\* the _process_grievance task: process_and_store(self.grievance_text,
\* self.grievance_timestamp or time.time()), any exception printed
StorageProcessGrievance ==
  /\ saveTask.pc = "created"
  /\ \E now \in clock..MaxClock, outcome \in {"stored", "failed"} :
       /\ now # clock => bot.grievance_timestamp = NoTime
       /\ clock' = now
       /\ stored' = Append(stored,
                      [transcript |-> bot.grievance_text,
                       timestamp |-> IF bot.grievance_timestamp # NoTime
                                     THEN bot.grievance_timestamp ELSE now])
       /\ saveTask' = [saveTask EXCEPT !.pc = "done", !.outcome = outcome]
  /\ UNCHANGED <<bot, is_playing, current_task, badFiles, tasks, co,
                 disconnects, sttAudio, nEvents, ev>>
  /\ UNCHANGED notStorage

\* on_track_subscribed: push_audio_to_stt and play_greeting_after_delay
\* tasks are created; the latter sleeps 1.5 s
StorageTrackSubscribed ==
  /\ disconnects = 0
  /\ \E g \in Greetings :
       /\ co[g].pc = "unborn"
       /\ \A h \in Greetings : h < g => co[h].pc # "unborn"
       /\ co' = [co EXCEPT ![g].pc = "sleep"]
  /\ UNCHANGED <<bot, is_playing, current_task, badFiles, tasks, saveTask,
                 stored, disconnects, sttAudio, nEvents, clock, ev>>
  /\ UNCHANGED notStorage

\* push_audio_to_stt: `if not player.is_playing: stt_stream.push_frame(...)`
StoragePushAudio ==
  /\ disconnects = 0
  /\ \E g \in Greetings : co[g].pc # "unborn"
  /\ ~is_playing
  /\ ~sttAudio
  /\ sttAudio' = TRUE
  /\ UNCHANGED <<bot, is_playing, current_task, badFiles, tasks, co,
                 saveTask, stored, disconnects, nEvents, clock, ev>>
  /\ UNCHANGED notStorage

\* play_greeting_after_delay: the 1.5 s sleep elapsed,
\* p.play(AUDIO_FILES["greeting"])
StorageGreetingWakes(g) ==
  /\ g \in Greetings
  /\ co[g].pc = "sleep"
  /\ \A h \in Greetings : h < g => co[h].pc # "sleep"
  /\ LET p == StoragePlayEnter(g, StorageAudioFiles["greeting"], "greeting",
                               bot.should_disconnect) IN
       /\ is_playing' = p.playing
       /\ current_task' = p.current
       /\ tasks' = p.tasks
       /\ co' = [co EXCEPT ![g] = p.co]
  /\ UNCHANGED <<bot, badFiles, saveTask, stored, disconnects, sttAudio,
                 nEvents, clock, ev>>
  /\ UNCHANGED notStorage

\* process_stt_events: a FINAL_TRANSCRIPT event, handled up to the loop's
\* next await
StorageReceiveFinal ==
  /\ co[Loop].pc = "recv"
  /\ sttAudio
  /\ nEvents < MaxEvents
  /\ nEvents' = nEvents + 1
  /\ sttAudio' = FALSE
  /\ \E transcript \in StorageUtterances, now \in clock..MaxClock :
       /\ now # clock =>
            (transcript # "" /\ ~is_playing /\ ~bot.should_disconnect)
       /\ IF transcript = "" \/ is_playing
          THEN /\ ev' = [type |-> "final", text |-> transcript,
                         called |-> FALSE, playing |-> is_playing,
                         ret |-> None, last |-> ""]
               /\ UNCHANGED <<bot, is_playing, current_task, tasks, co,
                              saveTask, clock>>
          ELSE LET r == StorageProcessInput(bot, transcript, now) IN
               /\ ev' = [type |-> "final", text |-> transcript,
                         called |-> TRUE, playing |-> is_playing,
                         ret |-> r.ret, last |-> ""]
               /\ bot' = r.bot
               /\ clock' = now
               /\ saveTask' =
                    IF r.spawned
                    THEN [pc |-> "created", outcome |-> "none",
                          created |-> saveTask.created + 1]
                    ELSE saveTask
               /\ IF r.ret # None
                  THEN LET p == StoragePlayEnter(Loop,
                                  StorageAudioFiles[r.ret], r.ret,
                                  r.bot.should_disconnect) IN
                       /\ is_playing' = p.playing
                       /\ current_task' = p.current
                       /\ tasks' = p.tasks
                       /\ co' = [co EXCEPT ![Loop] = p.co]
                  ELSE /\ co' = [co EXCEPT ![Loop].pc =
                                   StorageAfterPlay(Loop,
                                     r.bot.should_disconnect)]
                       /\ UNCHANGED <<is_playing, current_task, tasks>>
  /\ UNCHANGED <<badFiles, stored, disconnects>>
  /\ UNCHANGED notStorage

StorageNext ==
  \/ StorageTrackSubscribed
  \/ StoragePushAudio
  \/ \E g \in Greetings : StorageGreetingWakes(g)
  \/ StorageReceiveFinal
  \/ \E t \in TaskIds : StorageStreamStep(t)
  \/ \E c \in Callers : StorageResumeCancelWait(c)
  \/ \E c \in Callers : StoragePlayRaises(c)
  \/ \E c \in Callers : StoragePlayed(c)
  \/ StorageDisconnect
  \/ StorageProcessGrievance

SpecStorage == StorageInit /\ [][StorageNext]_vars

(***************************************************************************)
(* voice_agent_with_storage.py: GrievanceBotLogic called on its own.       *)
(***************************************************************************)

StorageLogicInit == StorageInit /\ badFiles = {}

\* one call bot.process_input(text)
CallStorageProcessInput ==
  /\ Len(calls) < MaxCalls
  /\ \E text \in StorageUtterances, now \in clock..MaxClock :
       /\ now # clock => ~bot.should_disconnect
       /\ bot' = StorageProcessInput(bot, text, now).bot
       /\ clock' = now
       /\ saveTask' =
            IF StorageProcessInput(bot, text, now).spawned
            THEN [pc |-> "created", outcome |-> "none",
                  created |-> saveTask.created + 1]
            ELSE saveTask
       /\ calls' = Append(calls,
                     [text |-> text, now |-> now,
                      ret |-> StorageProcessInput(bot, text, now).ret,
                      before |-> bot,
                      after |-> StorageProcessInput(bot, text, now).bot])
  /\ UNCHANGED <<last_processed_transcript, is_playing, current_task, cache,
                 badFiles, tasks, co, stored, disconnects, sttAudio,
                 nEvents, ev, dec, gp,
                 hindi, batch, tracker>>

StorageLogicNext == CallStorageProcessInput

SpecStorageLogic == StorageLogicInit /\ [][StorageLogicNext]_vars

(***************************************************************************)
(* llm.py: GrievanceTracker, its two add methods called in any order.      *)
(***************************************************************************)

\* everything but tracker
notTracker ==
  <<bot, last_processed_transcript, is_playing, current_task, cache,
    badFiles, tasks, co, saveTask, stored, disconnects, sttAudio, nEvents,
    clock, ev, calls, dec, gp, hindi, batch>>

\* the calls made on one tracker
MaxMessages == 3

\* the texts passed to the add methods
MessageTexts == {"", "ok", " my pay  was cut ", "thank you\nbye"}

\* len(text.split()) of each text, computed once
MessageWords == [t \in MessageTexts |-> WordCount(t)]

\* add_agent_message that counts the agent's words too
AddAgentMessageCountsWords ==
  /\ Len(tracker.log) < MaxMessages
  /\ \E text \in MessageTexts :
       tracker' =
         [tracker EXCEPT
            !.conversation_history =
               Append(@, [role |-> "assistant", content |-> text]),
            !.word_count = @ + MessageWords[text],
            !.log = Append(@, [method |-> "add_agent_message",
                               text |-> text, before |-> tracker])]
  /\ UNCHANGED notTracker

\* GrievanceTracker.add_user_message(text)
AddUserMessage ==
  /\ Len(tracker.log) < MaxMessages
  /\ \E text \in MessageTexts :
       tracker' =
         [tracker EXCEPT
            !.grievance_text = Append(@, "Employee: " \o text),
            !.conversation_history =
               Append(@, [role |-> "user", content |-> text]),
            !.word_count = @ + MessageWords[text],
            !.log = Append(@, [method |-> "add_user_message",
                               text |-> text, before |-> tracker])]
  /\ UNCHANGED notTracker

\* GrievanceTracker.add_agent_message(text)
AddAgentMessage ==
  /\ Len(tracker.log) < MaxMessages
  /\ \E text \in MessageTexts :
       tracker' =
         [tracker EXCEPT
            !.conversation_history =
               Append(@, [role |-> "assistant", content |-> text]),
            !.log = Append(@, [method |-> "add_agent_message",
                               text |-> text, before |-> tracker])]
  /\ UNCHANGED notTracker

\* GrievanceTracker.get_stats()
GetStats(t) ==
  [total_messages |-> Len(t.conversation_history),
   user_messages |->
     Len(SelectSeq(t.conversation_history, LAMBDA m : m.role = "user")),
   word_count |-> t.word_count]

TrackerInit == Init /\ badFiles = {}

TrackerNext == AddUserMessage \/ AddAgentMessage

SpecTracker == TrackerInit /\ [][TrackerNext]_vars

(***************************************************************************)
(* hindi.py: entrypoint from the wait for a participant to its end, with   *)
(* the session task, the conversation_item_added handler and the end_call  *)
(* tool.  hindi.ending lists what the entrypoint did to end the call,      *)
(* hindi.saved the transcripts given to save_grievance, hindi.inserted the *)
(* rows it committed.                                                      *)
(***************************************************************************)

\* everything but hindi
notHindi ==
  <<bot, last_processed_transcript, is_playing, current_task, cache,
    badFiles, tasks, co, saveTask, stored, disconnects, sttAudio, nEvents,
    clock, ev, calls, dec, gp, batch, tracker>>

\* the user messages of one call
MaxUserMessages == 2

\* the times the job asks the entrypoint task to cancel
MaxCancels == 1

\* item.text_content of the items added
ItemTexts == {"", " ", "vetan nahi mila"}

\* GoogleTranslator(source='hi', target='en').translate
GoogleTranslate == [t \in ItemTexts |->
                      IF t = "vetan nahi mila" THEN "salary not received"
                      ELSE t]

\* text.strip() == "" of each text
ItemBlank == [t \in ItemTexts |-> Strip(t) = ""]

\* TranslationManager.hindi_to_english: the text itself when it is blank
\* and when the translator raises
HindiToEnglish(text, translated) ==
  IF ItemBlank[text] THEN text
  ELSE IF translated THEN GoogleTranslate[text] ELSE text

\* "\n".join(lines)
RECURSIVE JoinLines(_)
JoinLines(lines) ==
  IF lines = <<>> THEN ""
  ELSE IF Len(lines) = 1 THEN lines[1]
  ELSE JoinLines(SubSeq(lines, 1, Len(lines) - 1)) \o "\n" \o lines[Len(lines)]

\* DatabaseManager.save_grievance(transcript, language): nothing for a
\* blank transcript; else the INSERT, whose exception is printed
SaveGrievance(h, transcript, language, insert_ok) ==
  [h EXCEPT
     !.saved = Append(@, [transcript |-> transcript, language |-> language]),
     !.inserted =
        IF Strip(transcript) # "" /\ insert_ok
        THEN Append(@, [transcript |-> transcript,
                        original_language |-> language,
                        status |-> "pending"])
        ELSE @]

\* the finally block down to its await: the transcript is saved and
\* ctx.room.disconnect() is called
RunFinally(h, insert_ok) ==
  [SaveGrievance(h, JoinLines(h.grievance_text_english), "hindi", insert_ok)
     EXCEPT !.ending = @ \o <<"save_grievance", "disconnect">>,
            !.pc = "disconnecting"]

\* session_task.cancel() and await session_task: a task that has finished
\* is not touched and the await ends at once, with the task's exception
\* if it failed; a running task is asked to cancel and the entrypoint
\* waits for it
CancelAndAwait(h, insert_ok) ==
  IF h.session \in {"done", "failed"}
  THEN RunFinally([h EXCEPT !.ending = @ \o <<"cancel", "await">>,
                            !.reraise = (h.session = "failed")],
                  insert_ok)
  ELSE [h EXCEPT !.ending = @ \o <<"cancel", "await">>,
                 !.session = "cancelling",
                 !.pc = "await_session"]

\* on_conversation_item_added: a user item with text is added to the
\* tracker, translated; other items leave the English transcript alone
ConversationItemAdded ==
  /\ hindi.pc \notin {"disconnecting", "ended", "raised"}
  /\ Len(hindi.grievance_text_english) < MaxUserMessages
  /\ \E role \in {"user", "assistant"}, text \in ItemTexts,
        translated \in BOOLEAN :
       /\ role = "user" /\ text # ""
       /\ hindi' =
            [hindi EXCEPT
               !.grievance_text_english =
                  Append(@, "Employee: " \o HindiToEnglish(text, translated))]
  /\ UNCHANGED notHindi

\* end_call: should_end_call.set()
EndCall ==
  /\ hindi.pc \notin {"disconnecting", "ended", "raised"}
  /\ ~hindi.should_end_call
  /\ hindi' = [hindi EXCEPT !.should_end_call = TRUE]
  /\ UNCHANGED notHindi

\* the job cancels the entrypoint task
CancelEntrypoint ==
  /\ hindi.pc \notin {"ended", "raised"}
  /\ hindi.cancels < MaxCancels
  /\ hindi' = [hindi EXCEPT !.must_cancel = TRUE, !.cancels = @ + 1]
  /\ UNCHANGED notHindi

\* session.start() returns or raises
SessionTaskFinishes ==
  /\ hindi.session = "running"
  /\ \E outcome \in {"done", "failed"} :
       hindi' = [hindi EXCEPT !.session = outcome]
  /\ UNCHANGED notHindi

\* a participant is in the room: the loop ends, await asyncio.sleep(1.5)
ParticipantJoined ==
  /\ hindi.pc = "joining" /\ ~hindi.must_cancel
  /\ hindi' = [hindi EXCEPT !.pc = "settling"]
  /\ UNCHANGED notHindi

\* await session.generate_reply(...)
StartGreeting ==
  /\ hindi.pc = "settling" /\ ~hindi.must_cancel
  /\ hindi' = [hindi EXCEPT !.pc = "greeting"]
  /\ UNCHANGED notHindi

\* the greeting was said, or it raised and the error was printed:
\* await should_end_call.wait()
GreetingOver ==
  /\ hindi.pc = "greeting" /\ ~hindi.must_cancel
  /\ hindi' = [hindi EXCEPT !.pc = "waiting"]
  /\ UNCHANGED notHindi

\* should_end_call is set: await asyncio.sleep(6.5)
EndCallSeen ==
  /\ hindi.pc = "waiting" /\ ~hindi.must_cancel
  /\ hindi.should_end_call
  /\ hindi' = [hindi EXCEPT !.pc = "final_pause"]
  /\ UNCHANGED notHindi

\* after the pause: the session task is cancelled and awaited
CloseSession ==
  /\ hindi.pc = "final_pause" /\ ~hindi.must_cancel
  /\ \E insert_ok \in BOOLEAN : hindi' = CancelAndAwait(hindi, insert_ok)
  /\ UNCHANGED notHindi

\* the session task ends cancelled: the entrypoint's await raises
\* CancelledError, which is passed over, and the finally block runs
SessionTaskCancelled ==
  /\ hindi.pc = "await_session" /\ ~hindi.must_cancel
  /\ hindi.session = "cancelling"
  /\ \E insert_ok \in BOOLEAN :
       hindi' = RunFinally([hindi EXCEPT !.session = "cancelled"], insert_ok)
  /\ UNCHANGED notHindi

\* the entrypoint resumes with CancelledError: before the try it leaves
\* entrypoint; at the wait and at the pause the except branch cancels and
\* awaits the session task; at an await of the session task it is passed
\* over and the finally block runs; at the disconnect it leaves entrypoint
EntrypointCancelled ==
  /\ hindi.must_cancel
  /\ hindi.pc \notin {"ended", "raised"}
  /\ \E insert_ok \in BOOLEAN :
       hindi' =
         IF hindi.pc \in {"joining", "settling", "greeting", "disconnecting"}
         THEN [hindi EXCEPT !.must_cancel = FALSE, !.pc = "raised"]
         ELSE IF hindi.pc \in {"waiting", "final_pause"}
         THEN CancelAndAwait([hindi EXCEPT !.must_cancel = FALSE], insert_ok)
         ELSE RunFinally([hindi EXCEPT !.must_cancel = FALSE], insert_ok)
  /\ UNCHANGED notHindi

\* ctx.room.disconnect() returns: entrypoint returns, or raises what the
\* session task raised
Disconnected ==
  /\ hindi.pc = "disconnecting" /\ ~hindi.must_cancel
  /\ hindi' = [hindi EXCEPT !.pc = IF hindi.reraise THEN "raised" ELSE "ended"]
  /\ UNCHANGED notHindi

HindiInit == Init /\ badFiles = {}

HindiNext ==
  \/ ConversationItemAdded
  \/ EndCall
  \/ CancelEntrypoint
  \/ SessionTaskFinishes
  \/ ParticipantJoined
  \/ StartGreeting
  \/ GreetingOver
  \/ EndCallSeen
  \/ CloseSession
  \/ SessionTaskCancelled
  \/ EntrypointCancelled
  \/ Disconnected

SpecHindi == HindiInit /\ [][HindiNext]_vars

(***************************************************************************)
(* processor.py: main() over the grievances table.  batch.db is the table, *)
(* batch.db_start the table as main() found it, batch.visits one entry per *)
(* row the loop has finished with.                                         *)
(***************************************************************************)

\* everything but batch
notBatch ==
  <<bot, last_processed_transcript, is_playing, current_task, cache,
    badFiles, tasks, co, saveTask, stored, disconnects, sttAudio, nEvents,
    clock, ev, calls, dec, gp, hindi, tracker>>

\* the rows of the table when main() starts
MaxRows == 2

\* a column that holds NULL
SqlNull == "NULL"

\* the keys update_grievance reads
BatchKeys ==
  {"category", "priority", "sentiment", "summary", "tags", "location",
   "department"}

\* a row another agent inserted (status defaults to 'pending', the analysis
\* columns to NULL) and a row an earlier run processed
StoredRow(n, status) ==
  [id |-> <<"id", n>>,
   transcript |-> <<"transcript", n>>,
   status |-> status,
   category |-> IF status = "pending" THEN SqlNull ELSE "Data",
   priority |-> IF status = "pending" THEN SqlNull ELSE "Low",
   sentiment |-> IF status = "pending" THEN SqlNull ELSE "Neutral",
   summary |-> IF status = "pending" THEN SqlNull ELSE "old",
   tags |-> IF status = "pending" THEN SqlNull ELSE "",
   location |-> IF status = "pending" THEN SqlNull ELSE "Undisclosed Location",
   department |-> IF status = "pending" THEN SqlNull ELSE "General"]

\* the tables main() can find
Databases ==
  UNION {{[n \in 1..len |-> StoredRow(n, st[n])] :
            st \in [1..len -> {"pending", "processed"}]} :
         len \in 0..MaxRows}

\* the values of a well-formed answer
BatchValues ==
  [category |-> "Managerial", priority |-> "High", sentiment |-> "Negative",
   summary |-> "pay cut", tags |-> <<"pay", "salary">>, location |-> "Pune",
   department |-> "HR"]

\* what categorize_grievance's try block comes to: the call or json.loads
\* raises; json.loads gives a dict with every key, one without "tags" and
\* "department", one whose "tags" is null, the empty dict, or a list
ModelOutcomes ==
  {[kind |-> "raised"],
   [kind |-> "dict", has |-> BatchKeys, val |-> BatchValues,
    tags_null |-> FALSE],
   [kind |-> "dict", has |-> BatchKeys \ {"tags", "department"},
    val |-> BatchValues, tags_null |-> FALSE],
   [kind |-> "dict", has |-> BatchKeys, val |-> BatchValues,
    tags_null |-> TRUE],
   [kind |-> "dict", has |-> {}, val |-> BatchValues, tags_null |-> FALSE],
   [kind |-> "list"]}

\* categorize_grievance: None from the except branch, else what json.loads
\* returned
BatchCategorize(outcome) ==
  IF outcome.kind = "raised" THEN [kind |-> "None"] ELSE outcome

\* bool(analysis_result)
Truthy(result) ==
  \/ result.kind = "list"
  \/ result.kind = "dict" /\ result.has # {}

\* ", ".join(tags)
RECURSIVE CommaJoin(_)
CommaJoin(tags) ==
  IF tags = <<>> THEN ""
  ELSE IF Len(tags) = 1 THEN tags[1]
  ELSE CommaJoin(SubSeq(tags, 1, Len(tags) - 1)) \o ", " \o tags[Len(tags)]

\* the UPDATE statement on the row with this id
UpdatedRows(db, g_id, data) ==
  [k \in 1..Len(db) |->
     IF db[k].id # g_id THEN db[k]
     ELSE [db[k] EXCEPT
             !.category = Get(data, "category", SqlNull),
             !.priority = Get(data, "priority", SqlNull),
             !.sentiment = Get(data, "sentiment", SqlNull),
             !.summary = Get(data, "summary", SqlNull),
             !.tags = CommaJoin(Get(data, "tags", <<>>)),
             !.location = Get(data, "location", SqlNull),
             !.department = Get(data, "department", SqlNull),
             !.status = "processed"]]

\* update_grievance that marks the row processed when the update fails
UpdateGrievanceMarksFailed(db, g_id, data, db_ok) ==
  IF /\ data.kind = "dict"
     /\ ~("tags" \in data.has /\ data.tags_null)
     /\ db_ok
  THEN [db |-> UpdatedRows(db, g_id, data), ok |-> TRUE]
  ELSE [db |-> [k \in 1..Len(db) |->
                  IF db[k].id = g_id
                  THEN [db[k] EXCEPT !.status = "processed"] ELSE db[k]],
        ok |-> FALSE]

\* update_grievance(g_id, data): data.get on a list and the join of a null
\* raise inside the try, as does the statement when db_ok is false; the
\* except branch prints and nothing is committed
UpdateGrievance(db, g_id, data, db_ok) ==
  IF /\ data.kind = "dict"
     /\ ~("tags" \in data.has /\ data.tags_null)
     /\ db_ok
  THEN [db |-> UpdatedRows(db, g_id, data), ok |-> TRUE]
  ELSE [db |-> db, ok |-> FALSE]

\* get_pending_grievances: the ids of the pending rows, in table order
RECURSIVE PendingIds(_)
PendingIds(db) ==
  IF db = <<>> THEN <<>>
  ELSE PendingIds(SubSeq(db, 1, Len(db) - 1)) \o
       (IF db[Len(db)].status = "pending" THEN <<db[Len(db)].id>> ELSE <<>>)

\* the loop moves to the next row, or main() returns after the last one
NextRow(b, updated) ==
  [b EXCEPT
     !.visits = Append(@, [id |-> b.pending_rows[b.i],
                           result |-> b.analysis_result,
                           updated |-> updated]),
     !.i = @ + 1,
     !.pc = IF b.i = Len(b.pending_rows) THEN "returned" ELSE "categorize"]

\* main() up to the loop: it returns when nothing is pending
MainStart ==
  /\ batch.pc = "start"
  /\ \E db \in Databases :
       batch' = [batch EXCEPT
                   !.db = db, !.db_start = db,
                   !.pending_rows = PendingIds(db),
                   !.i = 1,
                   !.pc = IF PendingIds(db) = <<>> THEN "returned"
                          ELSE "categorize"]
  /\ UNCHANGED notBatch

\* analysis_result = await processor.categorize_grievance(transcript)
MainCategorize ==
  /\ batch.pc = "categorize"
  /\ \E outcome \in ModelOutcomes :
       batch' = [batch EXCEPT !.analysis_result = BatchCategorize(outcome),
                              !.pc = "decide"]
  /\ UNCHANGED notBatch

\* if analysis_result: processor.update_grievance(g_id, analysis_result)
MainUpdate ==
  /\ batch.pc = "decide"
  /\ Truthy(batch.analysis_result)
  /\ \E db_ok \in BOOLEAN :
       batch' =
         [NextRow(batch,
                  UpdateGrievance(batch.db, batch.pending_rows[batch.i],
                                  batch.analysis_result, db_ok).ok)
            EXCEPT !.db =
              UpdateGrievance(batch.db, batch.pending_rows[batch.i],
                              batch.analysis_result, db_ok).db]
  /\ UNCHANGED notBatch

\* else: the update is skipped
MainSkip ==
  /\ batch.pc = "decide"
  /\ ~Truthy(batch.analysis_result)
  /\ batch' = NextRow(batch, FALSE)
  /\ UNCHANGED notBatch

BatchInit == Init /\ badFiles = {}

BatchNext ==
  \/ MainStart
  \/ MainCategorize
  \/ MainUpdate
  \/ MainSkip

SpecBatch == BatchInit /\ [][BatchNext]_vars

(***************************************************************************)
(* grievance_processor.py: GrievanceProcessor.process_and_store.           *)
(***************************************************************************)

\* process_and_store calls made
MaxGrievances == 2

\* everything but gp
notGp ==
  <<bot, last_processed_transcript, is_playing, current_task, cache,
    badFiles, tasks, co, saveTask, stored, disconnects, sttAudio, nEvents,
    clock, ev, calls, dec, hindi, batch, tracker>>

\* the transcripts handed to process_and_store
Transcripts == {"", "hello that's all", " my pay was cut "}

\* what the model answers with
AnswerValues ==
  [category |-> "Managerial", priority |-> "High", sentiment |-> "Negative",
   summary |-> "pay cut", tags |-> <<"pay">>, location |-> "Pune"]

\* the outcomes of generate_content and json.loads: an exception, or a
\* dict with every key, without "location", or without "category"
LlmOutcomes ==
  {[raised |-> TRUE, body |-> NoAnalysis]}
    \cup {[raised |-> FALSE, body |-> Dict(AnalysisKeys \ missing, AnswerValues)] :
            missing \in {{}, {"location"}, {"category"}}}

\* the default analysis with another priority
FallbackAnalysisLowPriority(transcript) ==
  Dict(AnalysisKeys,
       [category |-> "Uncategorized", priority |-> "Low",
        sentiment |-> "Neutral",
        summary |-> IF Len(transcript) > 200
                    THEN SubSeq(transcript, 1, 200) \o "..." ELSE transcript,
        tags |-> <<>>, location |-> "Undisclosed Location"])

\* categorize_grievance: the default analysis of the except branch
FallbackAnalysis(transcript) ==
  Dict(AnalysisKeys,
       [category |-> "Uncategorized", priority |-> "Medium",
        sentiment |-> "Neutral",
        summary |-> IF Len(transcript) > 200
                    THEN SubSeq(transcript, 1, 200) \o "..." ELSE transcript,
        tags |-> <<>>, location |-> "Undisclosed Location"])

\* categorize_grievance: the try block raises when the call or json.loads
\* raises and when analysis['category'] is missing (KeyError in the print)
CategorizeGrievance(transcript, llm) ==
  IF llm.raised THEN FallbackAnalysis(transcript)
  ELSE LET analysis ==
             IF "location" \notin llm.body.has
             THEN Dict(llm.body.has \cup {"location"},
                       [llm.body.val EXCEPT
                          !.location = "Undisclosed Location"])
             ELSE llm.body
       IN  IF "category" \notin analysis.has
           THEN FallbackAnalysis(transcript) ELSE analysis

\* str(timestamp), datetime.fromtimestamp(timestamp).isoformat(),
\* json.dumps(tags), str(uuid.uuid4())
Str(t) == <<"str", t>>
IsoFormat(t) == <<"iso", t>>
JsonDumps(v) == <<"json", v>>
Uuid(n) == <<"uuid", n>>

\* store_grievance: the row it inserts
Row(id, transcript, timestamp, analysis) ==
  [id |-> id,
   timestamp |-> Str(timestamp),
   transcript |-> transcript,
   category |-> Get(analysis, "category", "Uncategorized"),
   priority |-> Get(analysis, "priority", "Medium"),
   sentiment |-> Get(analysis, "sentiment", "Neutral"),
   summary |-> Get(analysis, "summary", ""),
   tags |-> JsonDumps(Get(analysis, "tags", <<>>)),
   created_at |-> IsoFormat(timestamp),
   location |-> Get(analysis, "location", "Undisclosed Location")]

\* process_and_store(transcript, timestamp) is called
ProcessAndStore ==
  /\ gp.pc = "idle"
  /\ Len(gp.calls) < MaxGrievances
  /\ \E transcript \in Transcripts, timestamp \in 1..MaxClock :
       gp' = [gp EXCEPT !.pc = "categorize", !.transcript = transcript,
                        !.timestamp = timestamp]
  /\ UNCHANGED notGp

\* Step 1: analysis = await self.categorize_grievance(transcript)
Categorize ==
  /\ gp.pc = "categorize"
  /\ \E llm \in LlmOutcomes :
       gp' = [gp EXCEPT !.pc = "store", !.failed = llm.raised,
                        !.analysis = CategorizeGrievance(gp.transcript, llm)]
  /\ UNCHANGED notGp

\* Step 2: store_grievance inserts the row; the result is returned
Store ==
  /\ gp.pc = "store"
  /\ LET id == Uuid(gp.uuids + 1) IN
       gp' = [gp EXCEPT
                !.pc = "idle",
                !.uuids = @ + 1,
                !.db = Append(@, Row(id, gp.transcript, gp.timestamp,
                                     gp.analysis)),
                !.calls = Append(@,
                   [transcript |-> gp.transcript,
                    timestamp |-> gp.timestamp,
                    failed |-> gp.failed,
                    rows_before |-> Len(gp.db),
                    rows_after |-> Len(gp.db) + 1,
                    result |-> [id |-> id, transcript |-> gp.transcript,
                                timestamp |-> gp.timestamp,
                                analysis |-> gp.analysis]])]
  /\ UNCHANGED notGp

ProcessorInit == Init /\ badFiles = {}

ProcessorNext ==
  \/ ProcessAndStore
  \/ Categorize
  \/ Store

SpecProcessor == ProcessorInit /\ [][ProcessorNext]_vars

(***************************************************************************)
(* AudioFilePlayer._decode_file on its own: the generator run to its end   *)
(* on one file.  The buffer and the frames are kept by their byte lengths. *)
(***************************************************************************)

\* everything but dec
notDec ==
  <<bot, last_processed_transcript, is_playing, current_task, cache,
    badFiles, tasks, co, saveTask, stored, disconnects, sttAudio, nEvents,
    clock, ev, calls, gp,
    hindi, batch, tracker>>

\* len(b[:k]) for a buffer of n bytes
SliceLen(n, k) == IF n < k THEN n ELSE k

\* av.open, the resampler, `buffer = bytearray()`
DecodeOpen ==
  /\ dec.pc = "idle"
  /\ dec' = [dec EXCEPT !.pc = "read"]
  /\ UNCHANGED notDec

\* the next resampled frame: buffer.extend(...)
DecodeExtend ==
  /\ dec.pc = "read"
  /\ dec.chunks < MaxChunks
  /\ \E n \in ChunkSizes :
       dec' = [dec EXCEPT !.pc = "drain", !.buffer = @ + n,
                          !.total = @ + n, !.chunks = @ + 1]
  /\ UNCHANGED notDec

\* `while len(buffer) >= 960: yield buffer[:960]; buffer = buffer[960:]`
DecodeYield ==
  /\ dec.pc = "drain"
  /\ dec.buffer >= FrameBytes
  /\ dec' = [dec EXCEPT
               !.frames = Append(@, SliceLen(dec.buffer, FrameBytes)),
               !.buffer = @ - SliceLen(dec.buffer, FrameBytes)]
  /\ UNCHANGED notDec

\* the while loop ends: on to the next resampled frame
DecodeDrained ==
  /\ dec.pc = "drain"
  /\ dec.buffer < FrameBytes
  /\ dec' = [dec EXCEPT !.pc = "read"]
  /\ UNCHANGED notDec

\* container.decode is exhausted: container.close(), the generator ends
DecodeClose ==
  /\ dec.pc = "read"
  /\ dec' = [dec EXCEPT !.pc = "closed"]
  /\ UNCHANGED notDec

DecodeInit == Init /\ badFiles = {}

DecodeNext ==
  \/ DecodeOpen
  \/ DecodeExtend
  \/ DecodeYield
  \/ DecodeDrained
  \/ DecodeClose

SpecDecode == DecodeInit /\ [][DecodeNext]_vars

(***************************************************************************)
(* Claims about agent.py's session.                                        *)
(***************************************************************************)

\* play() calls in progress
Playing == {c \in Callers : co[c].pc \in {"line59", "line71"}}

\* the stream task the transcript loop started for the closing cue
ClosingTasks ==
  {t \in 1..Len(tasks) :
     tasks[t].owner = Loop /\ tasks[t].key \in {"closing", "early_exit"}}

\* C1: at most one stream task is not done at any time.
C1_AtMostOneStream == Cardinality(InFlight) <= 1

\* C2: a stream task that was in flight when play(B) was called writes no
\* frame once B's stream task has written its first frame.
C2_NoFrameAfterSuccessor ==
  [][\A b \in 1..Len(tasks) : \A a \in tasks[b].preempts :
       tasks[b].written >= 1 => tasks'[a].written = tasks[a].written]_vars

\* C3: is_playing is true while a stream task is not done, and false when
\* no stream task is running and no play() call is in progress.
C3_IsPlayingExact ==
  /\ InFlight # {} => is_playing
  /\ (InFlight = {} /\ Playing = {}) => ~is_playing

\* C4: no coroutine that called play() receives CancelledError.
C4_NoCancelledErrorSurfaced == \A c \in Callers : co[c].pc # "raised"

\* C5: once should_disconnect is set, the transcript loop does not end
\* without ctx.room.disconnect() having been called.
C5_LoopEndsDisconnected ==
  (bot.should_disconnect /\ co[Loop].pc \in {"ended", "raised"})
    => disconnects >= 1

\* the closing cue was played to its end: the loop's stream task for it
\* is done, was not cancelled and wrote every frame its asset yields
ClosingCuePlayed ==
  /\ ClosingTasks # {}
  /\ \A t \in ClosingTasks :
       Done(t) /\ ~tasks[t].cancelled /\ tasks[t].written = FramesOf(tasks[t])

\* C6: the closing sequence runs in order, each step once: the closing
\* cue's play() returns after all its frames were written, then the save
\* task is created, then the grace sleep, then disconnect; no event is
\* handled (so process_input is not called) after disconnect.
C6_ClosingSequenceOrdered ==
  /\ [](/\ saveTask.created <= 1
        /\ disconnects <= 1
        /\ Cardinality(ClosingTasks) <= 1
        /\ saveTask.created = 1 => ClosingCuePlayed
        /\ co[Loop].pc = "grace" => (saveTask.created = 1 /\ disconnects = 0)
        /\ disconnects = 1 => (saveTask.created = 1 /\ co[Loop].pc = "ended"))
  /\ [][/\ saveTask'.created # saveTask.created =>
             (co[Loop].pc = "line71" /\ co'[Loop].pc = "grace")
        /\ disconnects' # disconnects =>
             (co[Loop].pc = "grace" /\ co'[Loop].pc = "ended")
        /\ disconnects >= 1 =>
             (ev' = ev /\ nEvents' = nEvents /\ co'[Loop].pc = "ended")]_vars

\* C6 witness: the loop disconnected after a closing cue of NumFrames frames
C6_Witness ==
  /\ disconnects = 1
  /\ saveTask.created = 1
  /\ \E t \in ClosingTasks : tasks[t].written = NumFrames /\ NumFrames >= 1

\* C7: when the session has set should_disconnect and is over (the loop
\* disconnected, the save task ended), process_and_store was called exactly
\* once, with the accumulated text and the timestamp.
C7_PersistedExactlyOnce ==
  (bot.should_disconnect /\ disconnects >= 1 /\ saveTask.pc = "done")
    => /\ Len(stored) = 1
       /\ stored[1].transcript = bot.grievance_text
       /\ stored[1].timestamp = bot.grievance_timestamp

\* C8: process_input is called only while is_playing is false.
C8_ProcessedOnlyWhenIdle == ev.called => ~ev.playing

\* C9: process_input is called only for a final event whose text is not
\* empty and differs from the last processed transcript; any other event
\* leaves the dialogue state and last_processed_transcript as they were.
C9_OnlyNewNonEmptyFinals ==
  [][nEvents' # nEvents =>
       /\ ev'.called =>
            /\ ev'.type = "final"
            /\ ev'.text # ""
            /\ ev'.text # last_processed_transcript
       /\ ~ev'.called =>
            /\ bot' = bot
            /\ last_processed_transcript' = last_processed_transcript
            /\ co' = co /\ tasks' = tasks
       /\ (ev'.type = "interim" \/ ev'.text = ""
             \/ ev'.text = last_processed_transcript) => ~ev'.called]_vars

\* C9 witness: a final transcript equal to the one processed before it was
\* skipped
C9_Witness ==
  /\ ev.type = "final"
  /\ ~ev.called
  /\ ev.text # ""
  /\ ev.text = last_processed_transcript
  /\ bot.state = "listening"

\* C10: the loop calls player.play with the asset AUDIO_FILES maps the
\* returned action token to.
C10_PlaysTokensAsset ==
  co[Loop].pc \in {"line59", "line71"}
    => co[Loop].file = AUDIO_FILES[co[Loop].key]

(***************************************************************************)
(* Claims about GrievanceBotLogic.process_input.                           *)
(***************************************************************************)

\* the farewell tokens
farewell_tokens == {"bye", "goodbye"}

\* an utterance as the claims read it: trimmed, lower-cased, word by word
Reading(text) ==
  LET trimmed == Strip(text)
      lower == Lower(trimmed)
      words == Split(lower)
      n == Len(words)
  IN  [trimmed |-> trimmed,
       words |-> words,
       \* ends with "?" or begins with an interrogative word
       interrogative |->
         \/ EndsWith(trimmed, "?")
         \/ n >= 1 /\ \E k \in 1..Len(interrogatives) :
                         words[1] = interrogatives[k],
       \* one of its words is a refusal keyword
       refusal_word |->
         \E i \in 1..n : \E k \in 1..Len(exit_triggers) :
            words[i] = exit_triggers[k],
       \* some occurrence of a strong exit phrase is at the end
       \* (optionally followed by ".") or followed by at most 2 words
       phrase_closes |->
         \E k \in 1..Len(strong_exit_phrases) : \E i \in 1..Len(lower) :
            /\ OccursAt(lower, strong_exit_phrases[k], i)
            /\ WordCount(SliceFrom(lower,
                            i - 1 + Len(strong_exit_phrases[k]))) <= 2,
       \* the final word is a farewell token
       final_farewell |-> n >= 1 /\ words[n] \in farewell_tokens,
       \* the text ends with the letters of the shorter farewell token
       ends_bye |-> EndsWith(lower, "bye"),
       \* the whole utterance is a gratitude phrase
       gratitude_alone |-> lower \in solo_gratitude,
       \* "thank you" together with other words
       thanks_among_words |->
         Contains(lower, "thank you") /\ lower \notin solo_gratitude,
       \* a closing phrase other than "thank you"
       other_phrase |->
         \E k \in 1..Len(strong_exit_phrases) :
            /\ strong_exit_phrases[k] # "thank you"
            /\ Contains(lower, strong_exit_phrases[k])]

Readings == [u \in DialogueUtterances |-> Reading(u)]

\* the calls made so far
Made == {calls[i] : i \in 1..Len(calls)}

\* the calls that found the bot in Greeting / in Listening
InGreeting == {c \in Made : c.before.state = "greeting"}
InListening == {c \in Made : c.before.state = "listening"}

\* the call moved the bot to Closing
Closed(c) == c.after.state = "closing" /\ c.after.should_disconnect

\* the accumulated text with the trimmed utterance appended
Appended(c) == c.before.grievance_text \o " " \o Readings[c.text].trimmed

\* C11: once the bot is in Closing (should_disconnect true), process_input
\* returns None for every input and leaves every field of the bot as it was.
C11_ClosingIsTerminal ==
  \A c \in Made :
     /\ (c.before.state = "closing") <=> c.before.should_disconnect
     /\ c.before.should_disconnect => (c.ret = None /\ c.after = c.before)

\* C11 witness: a closed bot holding a snapshot was given an utterance that
\* is no question
C11_Witness ==
  \E c \in Made :
     /\ c.before.should_disconnect
     /\ c.before.save_data.present
     /\ c.text = "hello"

\* the end-to-end scenario of the specification
Scenario ==
  <<"hello", "my manager yelled at me in front of everyone yesterday",
    "that's all">>

ScenarioRun ==
  Len(calls) = Len(Scenario) /\ \A i \in 1..Len(Scenario) :
                                   calls[i].text = Scenario[i]

ScenarioStatesActions ==
  /\ calls[1].before = NewBot
  /\ <<calls[1].before.state, calls[1].after.state, calls[2].after.state,
        calls[3].after.state>>
       = <<"greeting", "listening", "listening", "closing">>
  /\ <<calls[1].ret, calls[2].ret, calls[3].ret>>
       = <<None, "probe_details", "closing">>

\* C12 as stated: the scenario goes Greeting, Listening, Closing with the
\* actions none, probe, closing, and the final accumulated text is
\* utterances 2 and 3 concatenated in order.
C12_ScenarioAsStated ==
  ScenarioRun =>
    /\ ScenarioStatesActions
    /\ bot.grievance_text \in {Scenario[2] \o " " \o Scenario[3],
                                Scenario[2] \o Scenario[3]}

\* C12 amended: the same, and the final accumulated text is utterances 1,
\* 2 and 3 joined by single spaces.
C12_ScenarioAllThree ==
  ScenarioRun =>
    /\ ScenarioStatesActions
    /\ bot.grievance_text
         = Scenario[1] \o " " \o Scenario[2] \o " " \o Scenario[3]

\* C12 witness: the scenario was run to its end
C12_Witness == ScenarioRun /\ bot.state = "closing"

\* C13: in Greeting, process_input closes with "early_exit" if and only if
\* the utterance is not interrogative, has fewer than 4 words and one of
\* its words is a refusal keyword; then text and timestamp are unchanged.
C13_EarlyExitIffPureRefusal ==
  \A c \in InGreeting :
     LET r == Readings[c.text]
         exits == c.ret = "early_exit" /\ Closed(c)
     IN  /\ exits <=> (/\ ~r.interrogative
                       /\ Len(r.words) < 4
                       /\ r.refusal_word)
         /\ exits =>
              /\ c.after.grievance_text = c.before.grievance_text
              /\ c.after.grievance_timestamp = c.before.grievance_timestamp

\* C14: in Greeting, every non-interrogative utterance that is not a short
\* refusal moves the bot to Listening, appends the trimmed utterance and
\* records the timestamp; it returns "probe_details" with has_played_probe
\* set exactly when it has more than 7 words, else None.
C14_GreetingOpensListening ==
  \A c \in InGreeting :
     LET r == Readings[c.text] IN
     (~r.interrogative /\ ~(Len(r.words) < 4 /\ r.refusal_word)) =>
       /\ c.after.state = "listening"
       /\ c.after.grievance_text = c.before.grievance_text \o r.trimmed
       /\ c.after.grievance_timestamp = c.now
       /\ IF Len(r.words) > 7
          THEN c.ret = "probe_details" /\ c.after.has_played_probe
          ELSE /\ c.ret = None
               /\ c.after.has_played_probe = c.before.has_played_probe

\* C15: an utterance that ends with "?" or begins with an interrogative
\* word returns None and leaves state, should_disconnect and
\* has_played_probe unchanged; in Listening it is appended, in Greeting
\* nothing is appended.
C15_QuestionsNeverExit ==
  \A c \in Made :
     Readings[c.text].interrogative =>
       /\ c.ret = None
       /\ c.after.state = c.before.state
       /\ c.after.should_disconnect = c.before.should_disconnect
       /\ c.after.has_played_probe = c.before.has_played_probe
       /\ c.after.grievance_text =
            IF c.before.state = "listening"
            THEN Appended(c) ELSE c.before.grievance_text

\* C15 witness: in Listening a question ending in a farewell was appended,
\* and in Greeting a refusal with a question mark changed nothing
C15_Witness ==
  /\ \E c \in InListening :
        c.text = "who said bye" /\ c.after.grievance_text = Appended(c)
  /\ \E c \in InGreeting : c.text = "no?" /\ c.after = c.before

\* C16: in Listening, a non-interrogative utterance closes by a strong
\* exit phrase if and only if some occurrence of such a phrase is at its
\* end (optionally followed by ".") or followed by at most 2 words.
C16_AnyOccurrenceCloses ==
  \A c \in InListening :
     LET r == Readings[c.text] IN
     ~r.interrogative =>
       /\ r.phrase_closes => (c.ret = "closing" /\ Closed(c))
       /\ (Closed(c) /\ ~r.ends_bye /\ ~r.gratitude_alone)
            => r.phrase_closes

C18_GratitudeOnlyAlone ==
  \A c \in InListening :
     LET r == Readings[c.text] IN
     ~r.interrogative =>
       /\ r.gratitude_alone => (c.ret = "closing" /\ Closed(c))
       /\ (r.thanks_among_words /\ ~r.ends_bye /\ ~r.other_phrase)
            => ~Closed(c)

\* C19: when an exit fires in Listening, the event that returns "closing"
\* starts no persistence (no save task, no process_and_store call); the
\* snapshot is the prior text, a space and the exit utterance, with the
\* first utterance's timestamp; the snapshot and what process_and_store
\* is given equal grievance_text ever after.
C19_ExitHandsOffSnapshot ==
  /\ [][(/\ nEvents' # nEvents
         /\ ev'.called
         /\ bot.state = "listening"
         /\ ev'.ret = "closing") =>
          /\ saveTask' = saveTask
          /\ stored' = stored
          /\ bot.grievance_timestamp # NoTime
          /\ bot'.save_data =
               [present |-> TRUE,
                transcript |-> bot.grievance_text \o " "
                                 \o Facts(ev'.text).text_clean,
                timestamp |-> bot.grievance_timestamp]]_vars
  /\ [](/\ bot.save_data.present =>
             bot.save_data.transcript = bot.grievance_text
        /\ \A i \in 1..Len(stored) :
             /\ stored[i].transcript = bot.grievance_text
             /\ stored[i].timestamp = bot.grievance_timestamp)

\* C19 witness: "that's all" closed a Listening bot, and process_and_store
\* was called with the snapshot after the closing cue
C19_Witness ==
  /\ ev.called /\ ev.text = "that's all" /\ ev.ret = "closing"
  /\ Len(stored) = 1
  /\ stored[1].transcript = "hello that's all"

\* C20: in Listening, a non-interrogative utterance of fewer than 2 words
\* that matches no exit rule returns None; its only effect is that the
\* trimmed text is appended to grievance_text.
C20_NoiseOnlyAppended ==
  \A c \in InListening :
     LET r == Readings[c.text] IN
     (/\ ~r.interrogative
      /\ Len(r.words) < 2
      /\ ~r.phrase_closes /\ ~r.ends_bye /\ ~r.gratitude_alone) =>
       /\ c.ret = None
       /\ c.after = [c.before EXCEPT !.grievance_text = Appended(c)]

\* C20 witness: a single word and an empty utterance were taken as noise
C20_Witness ==
  /\ \E c \in InListening : c.text = "ok" /\ c.ret = None
  /\ \E c \in InListening : c.text = "" /\ c.ret = None

\* the acknowledgment actions
Acks == {ack_sounds[k] : k \in 1..Len(ack_sounds)}

\* the calls that returned the probe
Probes == {i \in 1..Len(calls) : calls[i].ret = "probe_details"}

C22_AckOnlyAfterProbe ==
  \A c \in Made :
     LET r == Readings[c.text] IN
     c.ret \in Acks =>
       /\ c.before.state = "listening"
       /\ c.before.has_played_probe
       /\ Len(r.words) > 7
       /\ ~r.interrogative
       /\ ~Closed(c)
       /\ c.after = [c.before EXCEPT !.grievance_text = Appended(c)]

\* C22 witness: an acknowledgment was returned
C22_Witness == \E c \in InListening : c.ret \in Acks

\* the values of state and the transitions between them
States == {"greeting", "listening", "closing"}

Transitions ==
  {<<"greeting", "listening">>, <<"greeting", "closing">>,
   <<"listening", "closing">>}

\* C27: state is greeting, listening or closing and changes only along
\* greeting->listening, greeting->closing, listening->closing; nothing
\* leaves closing; state is closing if and only if should_disconnect.
C27_StateMachine ==
  /\ bot.state \in States
  /\ (bot.state = "closing") <=> bot.should_disconnect
  /\ \A c \in Made :
       /\ c.before.state \in States /\ c.after.state \in States
       /\ (c.after.state = "closing") <=> c.after.should_disconnect
       /\ \/ c.after.state = c.before.state
          \/ <<c.before.state, c.after.state>> \in Transitions
       /\ c.before.state = "closing" => c.after.state = "closing"

\* C27 witness: greeting->listening, listening->closing and a call that
\* found the bot in closing
C27_Witness ==
  /\ Len(calls) = 3
  /\ <<calls[1].before.state, calls[2].before.state, calls[3].before.state,
        calls[3].after.state>>
       = <<"greeting", "listening", "closing", "closing">>
  /\ calls[3].text = "hello"

\* the trimmed texts of the calls cs that are part of the grievance: the
\* one that left Greeting for Listening and those made in Listening
RECURSIVE Heard(_)
Heard(cs) ==
  IF cs = <<>> THEN <<>>
  ELSE LET c == cs[Len(cs)]
           rest == Heard(SubSeq(cs, 1, Len(cs) - 1))
       IN  IF \/ c.before.state = "listening"
              \/ c.before.state = "greeting" /\ c.after.state = "listening"
           THEN Append(rest, Readings[c.text].trimmed)
           ELSE rest

\* texts joined by single spaces
RECURSIVE Joined(_)
Joined(ts) ==
  IF ts = <<>> THEN ""
  ELSE IF Len(ts) = 1 THEN ts[1]
  ELSE Joined(SubSeq(ts, 1, Len(ts) - 1)) \o " " \o ts[Len(ts)]

\* C28: grievance_text is append-only, and it is the trimmed texts of the
\* utterance that left Greeting for Listening and of every utterance
\* processed in Listening, in arrival order, joined by single spaces.
C28_TextAppendOnly ==
  /\ \A c \in Made :
       StartsWith(c.after.grievance_text, c.before.grievance_text)
  /\ bot.grievance_text = Joined(Heard(calls))

\* C28 witness: an opening utterance, a question and an exit utterance
\* were heard
C28_Witness ==
  /\ Len(calls) = 3
  /\ calls[1].text = "hello"
  /\ calls[2].text = "is that all you need?"
  /\ calls[3].text = "that's all"
  /\ Len(Heard(calls)) = 3

(***************************************************************************)
(* Claims about the session's failure handling.                            *)
(***************************************************************************)

\* the play() calls made with an asset that fails to decode and is not
\* in the cache
FailingPlays ==
  {c \in Callers : co[c].file \in badFiles /\ co[c].file \notin cache}

\* C24: a play() of an uncached asset that fails to decode returns
\* normally to its caller (no exception), and is_playing is false once it
\* has returned and nothing else is playing.
C24_BadAssetAbortsOnlyItself ==
  \A c \in FailingPlays :
     /\ co[c].pc # "raised"
     /\ (co[c].pc \notin {"line59", "line71"}
           /\ Playing = {} /\ InFlight = {}) => ~is_playing

\* C25: a failure of process_and_store stays inside the save task: the
\* transcript loop goes on from its grace sleep to disconnect, save_data is
\* cleared once the save task has ended, and disconnect is never held up by
\* the save task, whether it has succeeded, failed or is still pending.
C25_SaveFailureIsolated ==
  /\ saveTask.created >= 1 => co[Loop].pc \in {"grace", "ended"}
  /\ saveTask.outcome \in {"stored", "failed"} => ~bot.save_data.present
  /\ co[Loop].pc = "grace" => ENABLED Disconnect
  /\ co[Loop].pc = "ended" => disconnects = 1

\* C25 witness: process_and_store raised and the loop disconnected
C25_Witness ==
  /\ saveTask.outcome = "failed"
  /\ disconnects = 1
  /\ ~bot.save_data.present

(***************************************************************************)
(* Claims about AudioFilePlayer._decode_file.                              *)
(***************************************************************************)

RECURSIVE SumOf(_)
SumOf(ns) == IF ns = <<>> THEN 0 ELSE ns[1] + SumOf(Tail(ns))

\* C23: when _decode_file has ended, the byte lengths of the frames it
\* yielded sum to the length of the decoded PCM stream, and every frame
\* but at most the last is exactly 960 bytes.
C23_FramesCoverPcm ==
  dec.pc = "closed" =>
    /\ SumOf(dec.frames) = dec.total
    /\ \A i \in 1..(Len(dec.frames) - 1) : dec.frames[i] = FrameBytes

(***************************************************************************)
(* Claims about GrievanceProcessor.                                        *)
(***************************************************************************)

\* C26: when categorization raised, process_and_store still stores exactly
\* one record, with the raw transcript and category "Uncategorized",
\* priority "Medium", sentiment "Neutral", and returns a result with the
\* record's new id.
C26_FallbackRecordStored ==
  \A i \in 1..Len(gp.calls) :
     LET c == gp.calls[i] IN
     c.failed =>
       /\ c.rows_after = c.rows_before + 1
       /\ LET row == gp.db[c.rows_after] IN
            /\ row.transcript = c.transcript
            /\ row.category = "Uncategorized"
            /\ row.priority = "Medium"
            /\ row.sentiment = "Neutral"
            /\ c.result.id = row.id
            /\ c.result.transcript = c.transcript
            /\ \A j \in 1..Len(gp.db) : j # c.rows_after => gp.db[j].id # row.id

\* C26 witness: a second call, of a transcript with spaces around it,
\* found the model failing and was stored
C26_Witness ==
  /\ Len(gp.calls) = 2
  /\ gp.calls[2].failed
  /\ gp.calls[2].transcript = " my pay was cut "
  /\ Len(gp.db) = 2

(***************************************************************************)
(* Claims about voice.py's GrievanceBotLogic.                              *)
(***************************************************************************)

\* C30: in voice.py's Listening exit check "That's all I have to say" is
\* accepted as an exit and returns "closing", and "That's all the money I
\* have" is not and keeps the state Listening.
C30_ClosingRemarkAccepted ==
  \A c \in InListening :
     /\ c.text = "That's all I have to say" =>
          (c.ret = "closing" /\ c.after.state = "closing")
     /\ c.text = "That's all the money I have" =>
          (c.ret # "closing" /\ c.after.state = "listening")

(***************************************************************************)
(* Claims about voice_agent_with_storage.py's session.                     *)
(***************************************************************************)

\* the last play() call of caller c returned at line 53, its file missing
ReturnedOnMissing(c) ==
  /\ co[c].file \in badFiles
  /\ co[c].pc \in {"done", "recv", "grace", "ended"}

\* a play() call of caller d is under way and has not been pre-empted
PlayUnderWay(d) ==
  \/ co[d].pc = "line47"
  \/ co[d].pc = "line58" /\ ~tasks[co[d].waitOn].must_cancel

\* C29: in voice_agent_with_storage.py a play() call for a missing file
\* leaves the scheduler idle in every case, also when it pre-empted a
\* playback in flight: once it has returned is_playing is false (unless a
\* later play() is under way) and the transcript loop has not been ended by
\* an exception, so later final transcripts are processed and the session
\* can reach its disconnect.
C29_MissingFileLeavesIdle ==
  \A c \in Callers :
     ReturnedOnMissing(c) =>
       /\ is_playing => \E d \in Callers : PlayUnderWay(d)
       /\ co[Loop].pc # "raised"

(***************************************************************************)
(* Further claims about agent.py's GrievanceBotLogic.                      *)
(***************************************************************************)

\* the utterances that end with a strong exit phrase
EndsWithPhrase ==
  [u \in DialogueUtterances |->
     \E k \in 1..Len(strong_exit_phrases) :
        EndsWith(Lower(Strip(u)), strong_exit_phrases[k])]

\* C32: the interrogative guard fires only for utterances that end with
\* "?" or whose first word is what, how, why, who or where; any other
\* utterance, also one whose first word only starts with those letters
\* ("however", "whatever"), is not guarded: in Listening an exit phrase,
\* farewell or solo gratitude at its end closes the session and in Greeting
\* it leaves the Greeting state.
C32_GuardNeedsWholeWord ==
  \A c \in Made :
     LET r == Readings[c.text] IN
     ~r.interrogative =>
       /\ c.before.state = "greeting" => c.after.state # "greeting"
       /\ (/\ c.before.state = "listening"
           /\ EndsWithPhrase[c.text] \/ r.final_farewell \/ r.gratitude_alone)
            => (c.ret = "closing" /\ Closed(c))

\* C34: grievance_timestamp is assigned at most once, at the step from
\* Greeting to Listening: in Listening it is set, no other call changes
\* it, and the timestamp _prepare_exit stores in save_data equals it (the
\* time.time() fallback is not taken).
C34_TimestampSetOnce ==
  /\ bot.state = "listening" => bot.grievance_timestamp # NoTime
  /\ \A c \in Made :
       /\ c.after.grievance_timestamp # c.before.grievance_timestamp =>
            /\ c.before.state = "greeting"
            /\ c.after.state = "listening"
            /\ c.before.grievance_timestamp = NoTime
            /\ c.after.grievance_timestamp = c.now
       /\ c.before.state = "listening" =>
            c.before.grievance_timestamp # NoTime
       /\ c.ret = "closing" =>
            /\ c.after.save_data.present
            /\ c.after.save_data.timestamp = c.before.grievance_timestamp
            /\ c.after.save_data.timestamp # NoTime

\* C34 witness: a bot that began to listen after the clock had advanced
\* was closed two calls later, its snapshot holding that timestamp
C34_Witness ==
  /\ Len(calls) = 3
  /\ calls[1].after.grievance_timestamp = MaxClock
  /\ calls[2].after.state = "listening"
  /\ calls[3].ret = "closing"
  /\ calls[3].after.save_data.timestamp = MaxClock

(***************************************************************************)
(* Further claims about agent.py's session.                                *)
(***************************************************************************)

\* the action tokens whose cue is the closing cue
closing_tokens == {"closing", "early_exit"}

\* C33: once should_disconnect is true no cue but the closing cue is
\* started: no stream task is created after the closing cue's, no play()
\* call cancels the closing cue, and all of its frames are written before
\* the disconnect.
C33_ClosingCueUndisturbed ==
  \A t \in 1..Len(tasks) :
     tasks[t].key \in closing_tokens =>
       /\ ~tasks[t].must_cancel
       /\ \A u \in (t + 1)..Len(tasks) : tasks[u].key \in closing_tokens
       /\ disconnects > 0 => tasks[t].written = FramesOf(tasks[t])

(***************************************************************************)
(* Claims about voice_agent_with_storage.py's GrievanceBotLogic.           *)
(***************************************************************************)

\* an utterance as the claim reads it: its whitespace-separated words and
\* whether it contains an exit word of the Greeting / the Listening phase
StorageReadings ==
  [u \in StorageUtterances |->
     [words |-> Len(Split(Lower(Strip(u)))),
      greeting_exit |->
        \E k \in 1..Len(storage_greeting_exit_words) :
           Contains(Lower(u), storage_greeting_exit_words[k]),
      listening_exit |->
        \E k \in 1..Len(storage_exit_words) :
           Contains(Lower(u), storage_exit_words[k])]]

\* the words of the utterances processed by the first i calls
RECURSIVE WordsProcessed(_)
WordsProcessed(i) ==
  IF i = 0 THEN 0
  ELSE WordsProcessed(i - 1) +
       (IF calls[i].before.should_disconnect
        THEN 0 ELSE StorageReadings[calls[i].text].words)

\* C35: "continue" is returned at most once per session, and only in
\* Listening for an utterance without an exit word that has at least 5
\* words, when total_word_count, which counts every processed utterance,
\* the Greeting one included, is at least 20; an utterance of fewer than 5
\* words yields an action only if it contains an exit word.
C35_ContinueOnce ==
  \A i \in 1..Len(calls) :
     LET c == calls[i]
         r == StorageReadings[c.text]
     IN  /\ c.after.total_word_count = WordsProcessed(i)
         /\ c.ret = "continue" =>
              /\ c.before.state = "listening"
              /\ c.after.state = "listening"
              /\ ~r.listening_exit
              /\ r.words >= 5
              /\ c.after.total_word_count >= 20
              /\ \A j \in 1..(i - 1) : calls[j].ret # "continue"
         /\ (r.words < 5 /\ c.ret # None) =>
              \/ c.before.state = "greeting" /\ r.greeting_exit
              \/ c.before.state = "listening" /\ r.listening_exit

\* C35 witness: three utterances of 7 words; the third brings the total,
\* the Greeting utterance included, to 21 and is answered with "continue"
C35_Witness ==
  /\ Len(calls) = 3
  /\ \A i \in 1..3 : calls[i].text = "i was paid less than my team"
  /\ <<calls[1].ret, calls[2].ret, calls[3].ret>> = <<None, None, "continue">>
  /\ bot.total_word_count = 21

(***************************************************************************)
(* Claims about voice.py's session.                                        *)
(***************************************************************************)

\* C31: in voice.py's transcript loop an INTERIM_TRANSCRIPT event received
\* while audio is playing never ends the loop: after it the loop waits for
\* the next event, so later final transcripts are still passed to
\* process_input and a closing session still disconnects.
C31_BargeInKeepsLoop ==
  (ev.type = "interim" /\ ev.playing) => co[Loop].pc = "recv"

(***************************************************************************)
(* Claims about llm.py's GrievanceTracker.                                 *)
(***************************************************************************)

\* the whitespace-separated words of each text
MessageWordLists == [t \in MessageTexts |-> Split(t)]

\* the calls of add_user_message among the first n calls
UserCalls(n) ==
  {i \in 1..n : tracker.log[i].method = "add_user_message"}

\* the words of the user messages among the first n calls
RECURSIVE UserWords(_)
UserWords(n) ==
  IF n = 0 THEN 0
  ELSE UserWords(n - 1) +
       (IF n \in UserCalls(n)
        THEN Len(MessageWordLists[tracker.log[n].text]) ELSE 0)

\* C38: after any sequence of add_user_message and add_agent_message
\* calls, get_stats().user_messages is the number of add_user_message
\* calls and the length of grievance_text, total_messages is the number of
\* calls of both kinds, word_count is the sum of the word counts of the
\* user messages, and add_agent_message changed neither grievance_text
\* nor word_count.
C38_StatsCountCalls ==
  LET n == Len(tracker.log)
      stats == GetStats(tracker)
  IN  /\ stats.user_messages = Cardinality(UserCalls(n))
      /\ stats.user_messages = Len(tracker.grievance_text)
      /\ stats.total_messages = n
      /\ stats.word_count = UserWords(n)
      /\ \A i \in 1..n :
            LET after == IF i = n THEN tracker ELSE tracker.log[i + 1].before
            IN  tracker.log[i].method = "add_agent_message" =>
                  /\ after.grievance_text = tracker.log[i].before.grievance_text
                  /\ after.word_count = tracker.log[i].before.word_count

\* C38 witness: a user message of four words, an agent message of two and
\* an empty user message were added
C38_Witness ==
  /\ Len(tracker.log) = 3
  /\ <<tracker.log[1].text, tracker.log[2].text, tracker.log[3].text>>
       = <<" my pay  was cut ", "thank you\nbye", "">>
  /\ <<tracker.log[1].method, tracker.log[2].method, tracker.log[3].method>>
       = <<"add_user_message", "add_agent_message", "add_user_message">>
  /\ GetStats(tracker) =
       [total_messages |-> 3, user_messages |-> 2, word_count |-> 4]

(***************************************************************************)
(* Claims about processor.py's main().                                     *)
(***************************************************************************)

\* the row with this id
RowOf(db, id) == db[CHOOSE k \in 1..Len(db) : db[k].id = id]

\* the row holds what this analysis says
HoldsAnalysis(row, data) ==
  /\ data.kind = "dict"
  /\ row.category = Get(data, "category", SqlNull)
  /\ row.priority = Get(data, "priority", SqlNull)
  /\ row.sentiment = Get(data, "sentiment", SqlNull)
  /\ row.summary = Get(data, "summary", SqlNull)
  /\ row.tags = CommaJoin(Get(data, "tags", <<>>))
  /\ row.location = Get(data, "location", SqlNull)
  /\ row.department = Get(data, "department", SqlNull)

\* C37: when main() has returned, the rows visited are the rows that were
\* pending at the start, each once and in order; a visited row is
\* 'processed' with the analysis written exactly when categorize_grievance
\* returned a result and the update succeeded; a row whose categorization
\* failed is as it was, still 'pending', as is a row whose update failed;
\* and a failure on one row did not keep the later rows from being visited.
C37_EachPendingVisitedOnce ==
  batch.pc = "returned" =>
    /\ [k \in 1..Len(batch.visits) |-> batch.visits[k].id]
         = PendingIds(batch.db_start)
    /\ \A k, l \in 1..Len(batch.visits) :
          batch.visits[k].id = batch.visits[l].id => k = l
    /\ \A k \in 1..Len(batch.visits) :
          LET v == batch.visits[k]
              row == RowOf(batch.db, v.id)
          IN  /\ (row.status = "processed" /\ HoldsAnalysis(row, v.result))
                   <=> (v.result.kind # "None" /\ v.updated)
              /\ v.result.kind = "None" =>
                   /\ row.status = "pending"
                   /\ row = RowOf(batch.db_start, v.id)
              /\ v.updated \/ row = RowOf(batch.db_start, v.id)

\* C37 witness: main() returned after two pending rows; the categorization
\* of the first failed and the second was processed
C37_Witness ==
  /\ batch.pc = "returned"
  /\ Len(batch.visits) = 2
  /\ batch.visits[1].result.kind = "None"
  /\ batch.visits[2].updated
  /\ RowOf(batch.db, batch.visits[1].id).status = "pending"
  /\ RowOf(batch.db, batch.visits[2].id).status = "processed"
  /\ RowOf(batch.db, batch.visits[2].id).tags = "pay, salary"

(***************************************************************************)
(* Claims about hindi.py's entrypoint.                                     *)
(***************************************************************************)

\* C36: the session task is cancelled only after end_call set
\* should_end_call or the entrypoint was cancelled; and once the entrypoint
\* is over on either path, it has cancelled and awaited the session task,
\* then called save_grievance once with the English transcript, which
\* inserted one record exactly when that transcript is not blank, then
\* called ctx.room.disconnect() once.
C36_SameEndingOnBothPaths ==
  /\ hindi.ending # <<>> => (hindi.should_end_call \/ hindi.cancels > 0)
  /\ (hindi.pc \in {"ended", "raised"}
        /\ (hindi.should_end_call \/ hindi.cancels > 0)) =>
       /\ hindi.ending = <<"cancel", "await", "save_grievance", "disconnect">>
       /\ Len(hindi.saved) = 1
       /\ hindi.saved[1].transcript = JoinLines(hindi.grievance_text_english)
       /\ Len(hindi.inserted) = (IF Strip(hindi.saved[1].transcript) # ""
                                 THEN 1 ELSE 0)

=============================================================================
